---------------------------- MODULE Spec2Model ----------------------------
(***************************************************************************)
(* Eltern-Emailer: the incremental state-reconciliation core.              *)
(*                                                                         *)
(* The module models                                                       *)
(*   - the per-category diff functions of main.js (0.7.1) and of           *)
(*     elternportal.js / schulmanager.js / isy-schule.js, as operators     *)
(*     from (scraped items, ledger) to (tasks, ledger);                    *)
(*   - the commit handlers (ok) of the queued tasks;                       *)
(*   - the main loop of main.js: readState, the portal sections,           *)
(*     sendEmails, the write of the state file, the wait and the retry.    *)
(*                                                                         *)
(* Time is counted in ticks; midnight of day d is tick d * TicksPerDay.    *)
(* md5 is modelled as an injective tagging of its argument.                *)
(***************************************************************************)
EXTENDS Integers, Sequences, FiniteSets, TLC

VARIABLES
  cfg,          \* CONFIG.options: [mute, test, once]
  portal,       \* what the portal(s) currently show
  clock,        \* the wall clock (Date.now())
  NOW,          \* main.js:97, set at the start of each iteration
  stateFile,    \* state.json: whether it exists, and its content
  EMPTY_STATE,  \* main.js:48, the default ledger object (shared, mutable)
  state,        \* the ledger object of the running iteration
  aliased,      \* state.ep / state.sm are the objects of EMPTY_STATE
  INBOUND,      \* main.js:24, the queue of notification tasks
  pc,           \* position of the main loop
  i,            \* loop index of sendEmails
  errors,       \* sendEmails: number of collected send errors
  schulmanagerException, \* main.js:1108
  thrown,       \* history: number of exceptions raised so far
  failures,     \* history: number of sends that failed so far
  pass,         \* history: what sendEmails did to each task of this pass
  delivered,    \* history: items whose email was delivered successfully
  writes,       \* history: writes of the state file in this iteration
  probe,        \* the diff-engine harness: phase and recorded results
  incomingEmail, \* CONFIG.options.incomingEmail
  mailbox,      \* the IMAP inbox: the messages by sequence number
  OUTBOUND,     \* main.js:112, the queue of messages for teachers
  poll,         \* processNewEmail: its position, locals and history
  post,         \* sendMessagesToTeachers: its position, locals and history
  awake,        \* main.js:101, the promise that the global awake() resolves
  imap,         \* IMAP_CLIENT: connected, and the events not yet handled
  RETRY_WAIT_SECONDS,        \* main.js:92
  LAST_FAILURE_EPOCH_MILLIS, \* main.js:94
  millis        \* the wall clock: milliseconds beyond the ticks of clock

\* The reverse channel: the inbox, the queue for the portal and the two
\* functions that work on them.
mailVars == << incomingEmail, mailbox, OUTBOUND, poll, post >>

\* The retry throttling of main.js:83-94.
retryVars == << RETRY_WAIT_SECONDS, LAST_FAILURE_EPOCH_MILLIS, millis >>

vars == << cfg, portal, clock, NOW, stateFile, EMPTY_STATE, state, aliased,
           INBOUND, pc, i, errors, schulmanagerException, thrown, failures,
           pass, delivered, writes, probe, mailVars, awake, imap, retryVars >>

---------------------------------------------------------------------------
(* Bounds of the model *)

\* Ticks per day: timestamps of dates are multiples of it, NOW is not.
TicksPerDay == 2
\* Largest number of items (messages, notices, events, ...) of one category.
MaxItems == 2
\* Number of days the wall clock may advance during a run.
MaxDays == 1
\* CONFIG.options.eventLookaheadDays
LookaheadDays == 1
\* Number of faults in a run: exceptions (scrape errors, failing commit
\* handlers) and sends that fail.
MaxFaults == 1
\* Number of times in a row that the IMAP server cannot be reached.
MaxRetries == 10

(* Program constants *)

\* main.js:353: days added to a thread's date before comparing it with
\* lastSuccessfulRun.
GraceDays == 2

\* main.js:86-90: the retry throttling.
DEFAULT_RETRY_WAIT_SECONDS == 15
BACKOFF_TRIGGER_SECONDS == 60 * 60
MAX_RETRY_WAIT_SECONDS == 60 * 60

---------------------------------------------------------------------------
(* Utilities *)

Reverse(s) == [k \in 1..Len(s) |-> s[Len(s) + 1 - k]]

Range(s) == { s[k] : k \in 1..Len(s) }

EmptyMap == [x \in {} |-> 0]

\* obj[key] = value
Put(m, key, value) == [x \in DOMAIN m \cup {key} |-> IF x = key THEN value ELSE m[x]]

\* delete obj[key]
Delete(m, key) == [x \in DOMAIN m \ {key} |-> m[x]]

\* Concatenation of a sequence of sequences.
RECURSIVE Flatten(_)
Flatten(ss) == IF ss = << >> THEN << >> ELSE Head(ss) \o Flatten(Tail(ss))

\* All sequences over S of length at most n.
SeqsUpTo(S, n) == UNION { [1..k -> S] : k \in 0..n }

\* Sequences without repetition over S of length at most n.
DistinctSeqsUpTo(S, n) ==
  { s \in SeqsUpTo(S, n) : \A a, b \in 1..Len(s) : a # b => s[a] # s[b] }

\* Array.prototype.sort((a, b) => a.ts - b.ts): stable insertion by ts.
RECURSIVE SortByTs(_)
InsertByTs(e, s) ==
  LET before == SelectSeq(s, LAMBDA x : x.ts <= e.ts)
      after  == SelectSeq(s, LAMBDA x : x.ts > e.ts)
  IN before \o << e >> \o after
SortByTs(s) ==
  IF s = << >> THEN << >>
  ELSE InsertByTs(s[Len(s)], SortByTs(SubSeq(s, 1, Len(s) - 1)))

\* md5(): an injective digest.
md5(x) == << "md5", x >>

\* 0:00:00 of the day of timestamp t (Date.setHours(0, 0, 0, 0)).
todayZero(t) == t - (t % TicksPerDay)

---------------------------------------------------------------------------
(* Emails and tasks *)

NoMessageId == << >>

\* email.js:9 buildMessageId: local id plus the domain of the admin address.
buildMessageId(localId) == << localId, "eltern-emailer@domain" >>

\* An email: its synthetic message id, its references header, the portal
\* items its body carries and those of them the body marks as updated.
Email(messageId, references, carries) ==
  [ messageId |-> messageId, references |-> references, carries |-> carries,
    updated |-> {} ]

\* A task {email, ok}. handler names the closure ok; key holds the values it
\* captured. live: the objects the closure captured are still the objects
\* of the current ledger (FALSE once the ledger was re-read from the state
\* file, or the captured object was replaced).
Task(kind, email, handler, key) ==
  [ kind |-> kind, email |-> email, handler |-> handler, key |-> key,
    live |-> TRUE, ignoreFailure |-> FALSE ]

\* email.js:24 buildEmailAdmin with ok: () => {}
AdminTask(kind) ==
  Task(kind, Email(NoMessageId, << >>, {}), "noop", << >>)

---------------------------------------------------------------------------
(* The ledger of main.js *)

\* The value of hashes.subs before any plan was sent (the empty string).
NoHash == << >>

\* main.js:48 EMPTY_STATE as written in the source. Objects used as sets
\* of keys (value 1) are maps from the key to 1.
EmptyState ==
  [ ep |-> [ lastSuccessfulRun |-> 0,
             threads |-> EmptyMap,
             announcements |-> EmptyMap,
             inquiries |-> EmptyMap,
             events |-> EmptyMap,
             hashes |-> [ subs |-> NoHash, notices |-> EmptyMap ] ],
    sm |-> [ letters |-> EmptyMap ] ]

\* state.json does not exist.
NoFile == [ exists |-> FALSE, content |-> EmptyState ]

\* fs.writeFileSync(STATE_FILE, JSON.stringify(state))
FileWith(st) == [ exists |-> TRUE, content |-> st ]

\* JavaScript truthiness of obj[key]. The flags true and 1 of the ledger are
\* written 1, the flag false is written 0; an absent key is undefined.
Truthy(m, key) == key \in DOMAIN m /\ m[key] # 0

---------------------------------------------------------------------------
(* Announcements, main.js:271 *)

AnnouncementTask(id) ==
  Task("announcement", Email(NoMessageId, << >>, {<< "announcement", id >>}),
       "announcement", << id >>)

\* main.js:273 changed: the seen-set is not consulted.
buildEmailsForAnnouncementsAll(announcements, processedAnnouncements) ==
  LET fresh == Reverse(announcements)
  IN [k \in 1..Len(fresh) |-> AnnouncementTask(fresh[k])]

\* announcements: the ids in page order (newest first). The result is the
\* sequence of tasks pushed to INBOUND.
buildEmailsForAnnouncements(announcements, processedAnnouncements) ==
  LET unsent == SelectSeq(announcements,
                          LAMBDA a : a \notin DOMAIN processedAnnouncements)
      oldestFirst == Reverse(unsent)
  IN [k \in 1..Len(oldestFirst) |-> AnnouncementTask(oldestFirst[k])]

---------------------------------------------------------------------------
(* Threads, main.js:332 and main.js:407 *)

\* A thread's "latest": its date plus two days.
latest(thread) == thread.date + GraceDays * TicksPerDay

\* main.js:332 readThreadsMeta: each teacher keeps the threads that are not
\* older than the last successful run.
readThreadsMeta(teachers, lastSuccessfulRun) ==
  [k \in 1..Len(teachers) |->
     [ teachers[k] EXCEPT !.threads =
         SelectSeq(@, LAMBDA t : latest(t) >= lastSuccessfulRun) ]]

threadMessageId(teacherId, threadId, index) ==
  buildMessageId(<< "thread", teacherId, threadId, index >>)

\* main.js:437 changed: the references header names the message itself.
ThreadTaskSelfReference(teacher, thread, index) ==
  Task("thread",
       Email(threadMessageId(teacher.id, thread.id, index),
             IF index > 0
               THEN << threadMessageId(teacher.id, thread.id, index) >>
               ELSE << >>,
             {<< "thread", thread.id, index >>}),
       "thread", << thread.id, index >>)

ThreadTask(teacher, thread, index) ==
  Task("thread",
       Email(threadMessageId(teacher.id, thread.id, index),
             IF index > 0
               THEN << threadMessageId(teacher.id, thread.id, index - 1) >>
               ELSE << >>,
             {<< "thread", thread.id, index >>}),
       "thread", << thread.id, index >>)

\* main.js:410 changed: the messages of a thread are visited newest first.
ThreadTasksNewestFirst(teacher, thread, processedThreads) ==
  LET done == IF thread.id \in DOMAIN processedThreads
                THEN DOMAIN processedThreads[thread.id] ELSE {}
      indexes == SelectSeq([k \in 1..thread.messages |-> thread.messages - k],
                           LAMBDA index : index \notin done)
  IN [k \in 1..Len(indexes) |-> ThreadTask(teacher, thread, indexes[k])]

\* The tasks of one thread: one per message index that is no key of
\* processedThreads[thread.id], in ascending index order.
ThreadTasks(teacher, thread, processedThreads) ==
  LET done == IF thread.id \in DOMAIN processedThreads
                THEN DOMAIN processedThreads[thread.id] ELSE {}
      indexes == SelectSeq([k \in 1..thread.messages |-> k - 1],
                           LAMBDA index : index \notin done)
  IN [k \in 1..Len(indexes) |-> ThreadTask(teacher, thread, indexes[k])]

AllThreads(teachers) ==
  Flatten([k \in 1..Len(teachers) |-> teachers[k].threads])

\* main.js:407. Result: the tasks pushed and processedThreads, which gains an
\* empty entry for every thread it did not know.
buildEmailsForThreads(teachers, processedThreads) ==
  [ tasks |->
      Flatten([k \in 1..Len(teachers) |->
        Flatten([n \in 1..Len(teachers[k].threads) |->
          ThreadTasks(teachers[k], teachers[k].threads[n], processedThreads)])]),
    processedThreads |->
      [ id \in DOMAIN processedThreads
               \cup { t.id : t \in Range(AllThreads(teachers)) } |->
          IF id \in DOMAIN processedThreads THEN processedThreads[id]
          ELSE EmptyMap ] ]

---------------------------------------------------------------------------
(* Inquiries, main.js:473 *)

inquiryMessageId(index, j) == buildMessageId(<< "inquiry", index, j >>)

InquiryTask(index, j) ==
  Task("inquiry",
       Email(inquiryMessageId(index, j),
             IF j > 0 THEN << inquiryMessageId(index, j - 1) >> ELSE << >>,
             {<< "inquiry", index, j >>}),
       "inquiry", << index, j >>)

\* inquiries: the number of messages of each inquiry, in chronological
\* order; the inquiry at position k has index k - 1. processedInquiries maps
\* an index to the next message position to process.
buildEmailsForInquiries(inquiries, processedInquiries) ==
  LET next(index) == IF index \in DOMAIN processedInquiries
                       THEN processedInquiries[index] ELSE 0
      tasksOf(index) ==
        LET count == inquiries[index + 1] - next(index)
        IN IF count <= 0 THEN << >>
           ELSE [k \in 1..count |-> InquiryTask(index, next(index) + k - 1)]
  IN [ tasks |-> Flatten([k \in 1..Len(inquiries) |-> tasksOf(k - 1)]),
       processedInquiries |->
         [ index \in DOMAIN processedInquiries
                     \cup { k - 1 : k \in 1..Len(inquiries) } |-> next(index) ] ]

---------------------------------------------------------------------------
(* Substitution plan, main.js:506 *)

SubstitutionTask(hash) ==
  Task("substitutions", Email(NoMessageId, << >>, {<< "substitutions", hash >>}),
       "subs", << hash >>)

\* originalHTML: the content of the plan page. One task when its digest is
\* not the one stored in hashes.subs.
readSubstitutions(originalHTML, previousHashes) ==
  LET hash == md5(originalHTML)
  IN IF hash = previousHashes.subs THEN << >>
     ELSE << SubstitutionTask(hash) >>

---------------------------------------------------------------------------
(* Notice board, main.js:526 *)

NoticeTask(hash) ==
  Task("notice", Email(NoMessageId, << >>, {<< "notice", hash >>}),
       "notice", << hash >>)

\* main.js:541 changed: a new digest is recorded as sent when it is queued.
readNoticeBoardMarking(items, previousHashes) ==
  LET hashes == [k \in 1..Len(items) |-> md5(items[k])]
      fresh == SelectSeq(hashes, LAMBDA h : ~Truthy(previousHashes.notices, h))
  IN [ tasks |-> [k \in 1..Len(fresh) |-> NoticeTask(fresh[k])],
       newHashes |-> [ h \in Range(hashes) |-> 1 ] ]

\* items: the innerHTML of the current and the archived items. Result: the
\* tasks and newHashes, the object that replaces previousHashes.notices:
\* 1 (true) for a digest that was already sent, 0 (false) for a new one.
readNoticeBoard(items, previousHashes) ==
  LET hashes == [k \in 1..Len(items) |-> md5(items[k])]
      fresh == SelectSeq(hashes, LAMBDA h : ~Truthy(previousHashes.notices, h))
  IN [ tasks |-> [k \in 1..Len(fresh) |-> NoticeTask(fresh[k])],
       newHashes |->
         [ h \in Range(hashes) |->
             IF Truthy(previousHashes.notices, h) THEN 1 ELSE 0 ] ]

---------------------------------------------------------------------------
(* Events, main.js:556 and main.js:586 *)

\* The date of a table row that did not parse.
NoDate == -1

\* main.js:556 readEventsInternal. rows: the table rows [html, date] of both
\* lists; date is a day number or NoDate. A row whose date did not parse
\* gets the timestamp NOW.
readEventsInternal(rows, now) ==
  [k \in 1..Len(rows) |->
     [ html |-> rows[k].html,
       ts |-> IF rows[k].date = NoDate THEN now
              ELSE rows[k].date * TicksPerDay ]]

\* Some enumeration of the entries [html, ts] of previousEvents.
RECURSIVE Entries(_)
Entries(m) ==
  IF DOMAIN m = {} THEN << >>
  ELSE LET html == CHOOSE h \in DOMAIN m : TRUE
       IN << [ html |-> html, ts |-> m[html] ] >> \o Entries(Delete(m, html))

EventTask(upcomingEvents) ==
  Task("event",
       Email(NoMessageId, << >>,
             { << "event", e.html, e.status >> : e \in Range(upcomingEvents) }),
       "event", upcomingEvents)

\* main.js:586. Result: the tasks and previousEvents after the pruning of
\* the expired entries.
readEvents(rows, previousEvents, now) ==
  LET todayZeroTs == todayZero(now)
      pruned == [ html \in { h \in DOMAIN previousEvents :
                               previousEvents[h] >= todayZeroTs } |->
                    previousEvents[html] ]
      events == readEventsInternal(rows, now)
      lookaheadTs == todayZeroTs + LookaheadDays * TicksPerDay
      inRange == SelectSeq(events,
                   LAMBDA e : e.ts >= todayZeroTs /\ e.ts <= lookaheadTs)
      upcoming == [k \in 1..Len(inRange) |->
                     [ html |-> inRange[k].html, ts |-> inRange[k].ts,
                       status |-> IF inRange[k].html \in DOMAIN pruned
                                    THEN 0 ELSE 1 ]]
      numNewEvents == Len(SelectSeq(upcoming, LAMBDA e : e.status = 1))
      upcomingEventsHtml == { e.html : e \in Range(upcoming) }
      gone == SelectSeq(Entries(pruned),
                        LAMBDA e : e.html \notin upcomingEventsHtml)
      removedEvents == [k \in 1..Len(gone) |->
                          [ html |-> gone[k].html, ts |-> gone[k].ts,
                            status |-> -1 ]]
      numRemovedEvents == Len(removedEvents)
      upcomingEvents == SortByTs(upcoming \o removedEvents)
  IN [ tasks |-> IF numNewEvents + numRemovedEvents = 0 THEN << >>
                 ELSE << EventTask(upcomingEvents) >>,
       previousEvents |-> pruned ]

\* main.js:649 changed: a removed event stays in previousEvents.
RECURSIVE okHandlerKeepsRemoved(_, _)
okHandlerKeepsRemoved(upcomingEvents, previousEvents) ==
  IF upcomingEvents = << >> THEN previousEvents
  ELSE LET e == Head(upcomingEvents)
       IN okHandlerKeepsRemoved(Tail(upcomingEvents),
            IF e.status = 1 THEN Put(previousEvents, e.html, e.ts)
            ELSE previousEvents)

\* main.js:644 okHandler: new events enter previousEvents, removed ones
\* leave it.
RECURSIVE okHandler(_, _)
okHandler(upcomingEvents, previousEvents) ==
  IF upcomingEvents = << >> THEN previousEvents
  ELSE LET e == Head(upcomingEvents)
       IN okHandler(Tail(upcomingEvents),
            IF e.status = 1 THEN Put(previousEvents, e.html, e.ts)
            ELSE IF e.status = -1 THEN Delete(previousEvents, e.html)
            ELSE previousEvents)

---------------------------------------------------------------------------
(* Schulmanager letters, schulmanager.js:123 and schulmanager.js:251 *)

LetterTask(id) ==
  Task("letter", Email(NoMessageId, << >>, {<< "letter", id >>}),
       "letter", << id >>)

\* schulmanager.js:154: the ids that are no longer listed are pruned.
pruneLetters(allLetters, letters) ==
  [ id \in DOMAIN letters \cap Range(allLetters) |-> letters[id] ]

\* schulmanager.js:163 and :248: the unsent letters, oldest first.
readLetters(allLetters, letters) ==
  Reverse(SelectSeq(allLetters, LAMBDA id : ~Truthy(letters, id)))

\* schulmanager.js:251
buildEmailsForLetters(letters) ==
  [k \in 1..Len(letters) |-> LetterTask(letters[k])]

---------------------------------------------------------------------------
(* The commit handlers of main.js *)

\* The effect of a task's ok() on the ledger st. A closure whose captured
\* objects are no longer part of the ledger changes nothing in it.
ok(t, st) ==
  IF ~t.live THEN st
  ELSE CASE t.handler = "announcement" ->
              [st EXCEPT !.ep.announcements = Put(@, t.key[1], 1)]
         [] t.handler = "thread" ->
              [st EXCEPT !.ep.threads =
                 Put(@, t.key[1],
                     Put(IF t.key[1] \in DOMAIN @ THEN @[t.key[1]] ELSE EmptyMap,
                         t.key[2], 1))]
         [] t.handler = "inquiry" ->
              [st EXCEPT !.ep.inquiries = Put(@, t.key[1], t.key[2] + 1)]
         [] t.handler = "subs" ->
              [st EXCEPT !.ep.hashes.subs = t.key[1]]
         [] t.handler = "notice" ->
              [st EXCEPT !.ep.hashes.notices = Put(@, t.key[1], 1)]
         [] t.handler = "event" ->
              [st EXCEPT !.ep.events = okHandler(t.key, @)]
         [] t.handler = "letter" ->
              [st EXCEPT !.sm.letters = Put(@, t.key[1], 1)]
         [] OTHER -> st

\* Only the ok() of an announcement awaits the portal (page.goto and
\* page.evaluate, main.js:294) and can therefore throw.
CanThrow(t) == t.handler = "announcement"

---------------------------------------------------------------------------
(* Isy-Schule news, isy-schule.js:62 *)

NewsTask(id) ==
  Task("news", Email(NoMessageId, << >>, {<< "news", id >>}), "news", << id >>)

\* news: the ids of the previews. isy-schule.js:80-84 deletes
\* this.#state[id], not this.#state.news[id]: the seen-set keeps its keys.
readNews(news, stateNews) ==
  LET fresh == SelectSeq(news, LAMBDA id : ~Truthy(stateNews, id))
  IN [k \in 1..Len(fresh) |-> NewsTask(fresh[k])]

---------------------------------------------------------------------------
(* The ledger and the diff functions of elternportal.js *)

\* elternportal.js:17 EMPTY_STATE
EmptyStateEP ==
  [ threads |-> EmptyMap, announcements |-> EmptyMap, inquiries |-> EmptyMap,
    events |-> << >>,
    hashes |-> [ substitutions |-> EmptyMap, notices |-> EmptyMap ] ]

\* A message of an inquiry is its content (subject, date and text).
inquiryHash(message) == md5(<< "inquiry", message >>)

InquiryTaskEP(hash, previousHash) ==
  Task("inquiry",
       Email(buildMessageId(<< "inquiry", hash >>),
             IF previousHash = NoHash THEN << >>
             ELSE << buildMessageId(<< "inquiry", previousHash >>) >>,
             {<< "inquiry", hash >>}),
       "inquiryEP", << hash >>)

\* The tasks of one inquiry (elternportal.js:405-427): one per message
\* whose digest is not truthy in state.inquiries.
InquiryTasksEP(messages, stateInquiries) ==
  LET hashes == [j \in 1..Len(messages) |-> inquiryHash(messages[j])]
      new == SelectSeq([j \in 1..Len(messages) |-> j],
                       LAMBDA j : ~Truthy(stateInquiries, hashes[j]))
  IN [k \in 1..Len(new) |->
        InquiryTaskEP(hashes[new[k]],
                      IF new[k] > 1 THEN hashes[new[k] - 1] ELSE NoHash)]

\* elternportal.js:403. inquiries: for each inquiry its messages, oldest
\* inquiry first. Result: the tasks and state.inquiries, which line 430
\* replaces by prunedHashes: every scraped digest, with the value 1.
buildEmailsForInquiriesEP(inquiries, stateInquiries) ==
  [ tasks |-> Flatten([k \in 1..Len(inquiries) |->
                         InquiryTasksEP(inquiries[k], stateInquiries)]),
    inquiries |->
      [ h \in { inquiryHash(m) : m \in UNION { Range(inquiries[k]) :
                                               k \in 1..Len(inquiries) } }
          |-> 1 ] ]

\* A day of the plan page: its heading and table (html), the day of the
\* month its heading shows (the month starts at tick 0) and the number of
\* rows of its table.

\* elternportal.js:455: m[1] + 1 where m[1] is the matched string of digits:
\* the digit 1 is appended to it.
appendOne(digits) == 10 * digits + 1

\* new Date(year, month, day).getTime(): days beyond the end of the month
\* run on into the following months.
getTime(dayOfMonth) == (dayOfMonth - 1) * TicksPerDay

\* elternportal.js:455
expired(day, now) == now >= getTime(appendOne(day.dayOfMonth))

\* elternportal.js:459
empty(day) == day.rows <= 1

\* elternportal.js:445-463: the html of the days that are kept.
scrapeSubstitutions(days, now) ==
  LET kept == SelectSeq(days, LAMBDA day : ~(expired(day, now) \/ empty(day)))
  IN [ k \in 1..Len(kept) |-> kept[k].html ]

\* elternportal.js:466-471: sub.updated
updatedSubstitution(sub, previousSubstitutions) ==
  md5(sub) \notin DOMAIN previousSubstitutions

\* The email of the plan carries every day; a changed day is marked.
SubstitutionTaskEP(subs, newHashes, previousSubstitutions) ==
  Task("substitutions",
       [ Email(NoMessageId, << >>,
               { << "substitutions", md5(subs[k]) >> : k \in 1..Len(subs) })
           EXCEPT !.updated =
             { << "substitutions", md5(subs[k]) >> :
                 k \in { n \in 1..Len(subs) :
                           updatedSubstitution(subs[n],
                                               previousSubstitutions) } } ],
       "subsEP", << newHashes >>)

\* elternportal.js:435. substitutions: the html of each day that is neither
\* expired nor empty. Result: the tasks and previousHashes.substitutions.
readSubstitutionsEP(substitutions, previousSubstitutions) ==
  LET newHashes == [ h \in { md5(sub) : sub \in Range(substitutions) } |-> 1 ]
      haveUpdates == \E sub \in Range(substitutions) :
                        updatedSubstitution(sub, previousSubstitutions)
  IN IF ~haveUpdates
       THEN [ tasks |-> << >>, substitutions |-> newHashes ]
       ELSE [ tasks |-> << SubstitutionTaskEP(substitutions, newHashes,
                                              previousSubstitutions) >>,
              substitutions |-> previousSubstitutions ]

noticeHash(item) == md5(<< md5(<< "subject", item >>), md5(<< "content", item >>) >>)

NoticeTaskEP(hash) ==
  Task("notice", Email(NoMessageId, << >>, {<< "notice", hash >>}),
       "notice", << hash >>)

\* elternportal.js:500. items: the notices (subject and content), current
\* and archived. Result: the tasks and newHashes.
readNoticeBoardEP(items, previousNotices) ==
  LET hashes == [k \in 1..Len(items) |-> noticeHash(items[k])]
      fresh == SelectSeq(hashes, LAMBDA h : ~Truthy(previousNotices, h))
  IN [ tasks |-> [k \in 1..Len(fresh) |-> NoticeTaskEP(fresh[k])],
       newHashes |->
         [ h \in Range(hashes) |->
             IF Truthy(previousNotices, h) THEN 1 ELSE 0 ] ]

\* elternportal.js:542 readEventsInternal. A row whose date did not parse
\* yields an error entry.
readEventsInternalEP(rows) ==
  [k \in 1..Len(rows) |->
     [ html |-> rows[k].html,
       error |-> rows[k].date = NoDate,
       ts |-> IF rows[k].date = NoDate THEN 0
              ELSE rows[k].date * TicksPerDay ]]

\* elternportal.js:592: same description and same dates.
eventsMatch(a, b) == a.html = b.html /\ a.ts = b.ts

\* elternportal.js:598
containsEvent(events, event) ==
  \E k \in 1..Len(events) : eventsMatch(events[k], event)

\* elternportal.js:602: the report to the admin, if a date did not parse.
reportAndRemoveEventsWithErrors(events) ==
  [ tasks |-> IF \E k \in 1..Len(events) : events[k].error
                THEN << AdminTask("eventErrors") >> ELSE << >>,
    events |-> SelectSeq(events, LAMBDA e : ~e.error) ]

WithStatus(events, status(_)) ==
  [k \in 1..Len(events) |->
     [ html |-> events[k].html, ts |-> events[k].ts,
       status |-> status(events[k]) ]]

\* The email lists the events of the lookahead and all later ones.
EventTaskEP(upcomingEvents, laterEvents) ==
  Task("event",
       Email(NoMessageId, << >>,
             { << "event", e.html, e.status >> :
                 e \in Range(upcomingEvents) \cup Range(laterEvents) }),
       "eventEP", upcomingEvents)

\* elternportal.js:620. Result: the tasks and stateEP.events after the
\* pruning of the expired entries.
readEventsEP(rows, stateEvents, now) ==
  LET todayZeroTs == todayZero(now)
      pruned == SelectSeq(stateEvents, LAMBDA e : e.ts >= todayZeroTs)
      report == reportAndRemoveEventsWithErrors(readEventsInternalEP(rows))
      events == report.events
      lookaheadTs == todayZeroTs + LookaheadDays * TicksPerDay
      upcoming == WithStatus(
                    SelectSeq(events, LAMBDA e : e.ts >= todayZeroTs
                                                 /\ e.ts <= lookaheadTs),
                    LAMBDA e : IF containsEvent(pruned, e) THEN 0 ELSE 1)
      numNewEvents == Len(SelectSeq(upcoming, LAMBDA e : e.status = 1))
      removedEvents == WithStatus(
                         SelectSeq(pruned,
                                   LAMBDA e : ~containsEvent(upcoming, e)),
                         LAMBDA e : -1)
      numRemovedEvents == Len(removedEvents)
      upcomingEvents == SortByTs(upcoming \o removedEvents)
      laterEvents == SortByTs(WithStatus(
                       SelectSeq(events, LAMBDA e : e.ts > lookaheadTs),
                       LAMBDA e : 0))
  IN [ tasks |-> report.tasks \o
                 (IF numNewEvents + numRemovedEvents = 0 THEN << >>
                  ELSE << EventTaskEP(upcomingEvents, laterEvents) >>),
       events |-> pruned ]

\* elternportal.js:695 okHandler
RECURSIVE okHandlerEP(_, _)
okHandlerEP(upcomingEvents, stateEvents) ==
  IF upcomingEvents = << >> THEN stateEvents
  ELSE LET e == Head(upcomingEvents)
       IN okHandlerEP(Tail(upcomingEvents),
            IF e.status = 1
              THEN Append(stateEvents, [ html |-> e.html, ts |-> e.ts ])
            ELSE IF e.status = -1
              THEN SelectSeq(stateEvents, LAMBDA ee : ~eventsMatch(ee, e))
            ELSE stateEvents)

\* The effect of ok() of a task of elternportal.js or isy-schule.js on the
\* ledger st of its source.
okEP(t, st) ==
  CASE t.handler = "inquiryEP" ->
         [st EXCEPT !.inquiries = Put(@, t.key[1], 1)]
    [] t.handler = "subsEP" ->
         [st EXCEPT !.hashes.substitutions = t.key[1]]
    [] t.handler = "notice" ->
         [st EXCEPT !.hashes.notices = Put(@, t.key[1], 1)]
    [] t.handler = "eventEP" ->
         [st EXCEPT !.events = okHandlerEP(t.key, @)]
    [] t.handler = "news" ->
         [st EXCEPT !.news = Put(@, t.key[1], 1)]
    [] OTHER -> st

---------------------------------------------------------------------------
(* The portal *)

\* The day the program is started: late enough for a thread of day 0 to be
\* older than the grace period.
StartDay == GraceDays + 1

StartTick == StartDay * TicksPerDay + 1

\* Ids in page order, newest first.
Descending(n) == [k \in 1..n |-> n + 1 - k]

AnnouncementLists == { Descending(n) : n \in 0..MaxItems }

\* InquiryLists have one or two messages (request, response).
InquiryLists == SeqsUpTo({1, 2}, MaxItems)

\* One teacher (id 7) with at most one thread (id 11), last active on day 0
\* or on the day of the start.
TeacherLists ==
  { << [ id |-> 7, threads |-> << >> ] >> } \cup
  { << [ id |-> 7,
         threads |-> << [ id |-> 11, date |-> d * TicksPerDay,
                          messages |-> n ] >> ] >> :
      d \in {0, StartDay}, n \in 1..MaxItems }

NoticeLists == { Descending(n) : n \in 0..MaxItems }

\* Event rows: today's, one beyond the lookahead, one without a date.
EventRowPool ==
  { [ html |-> 1, date |-> StartDay ],
    [ html |-> 2, date |-> StartDay + LookaheadDays + 1 ],
    [ html |-> 3, date |-> NoDate ] }

EventRowLists ==
  { s \in DistinctSeqsUpTo(EventRowPool, MaxItems) :
      \A a, b \in 1..Len(s) : a < b => s[a].html < s[b].html }

LetterLists == { Descending(n) : n \in 0..MaxItems }

ItemsOf(p) ==
  Len(p.announcements) + Len(Flatten([k \in 1..Len(p.inquiries) |->
                                        [n \in 1..p.inquiries[k] |-> n]]))
  + Len(Flatten([k \in 1..Len(AllThreads(p.teachers)) |->
                   [n \in 1..AllThreads(p.teachers)[k].messages |-> n]]))
  + Len(p.notices) + Len(p.events) + Len(p.letters)

\* The portals of the model: at most MaxItems items in all.
Portals ==
  { p \in [ announcements : AnnouncementLists, inquiries : InquiryLists,
            teachers : TeacherLists, substitutions : {1}, notices : NoticeLists,
            events : EventRowLists, letters : LetterLists ] :
      ItemsOf(p) <= MaxItems }

---------------------------------------------------------------------------
(* The main loop, main.js:1095, and the retry loop, main.js:1181 *)

Configs == [ mute : BOOLEAN, test : BOOLEAN, once : BOOLEAN ]

\* The diff harness is idle while the main loop runs.
ProbeIdle == [ phase |-> "idle" ]

\* main.js:1071: incoming email is not enabled, there is no IMAP client.
NoIncomingEmail ==
  [ enabled |-> FALSE, forwardingAddress |-> FALSE, allowForwardingFrom |-> {} ]

\* main.js:99: IMAP_CLIENT is null.
NoImapClient == [ connected |-> FALSE, events |-> 0 ]

\* main.js:1206 Date.now() when the program starts: it counts from 1970, so
\* it is more than BACKOFF_TRIGGER_SECONDS after the epoch 0 that
\* LAST_FAILURE_EPOCH_MILLIS starts with.
StartEpochMillis == 2 * BACKOFF_TRIGGER_SECONDS * 1000

\* main.js:92-94: the retry throttling when the program starts.
RetryIdle ==
  /\ RETRY_WAIT_SECONDS = DEFAULT_RETRY_WAIT_SECONDS
  /\ LAST_FAILURE_EPOCH_MILLIS = 0
  /\ millis = StartEpochMillis

\* processNewEmail is not running.
PollIdle ==
  [ phase |-> "idle", fetched |-> << >>, next |-> 1, ignoredMessages |-> {},
    numNewMessages |-> 0, pushed |-> << >>, alerts |-> << >> ]

\* sendMessagesToTeachers is not running.
PostIdle ==
  [ phase |-> "idle", outboundTmp |-> << >>, msg |-> 1, i |-> 0,
    step |-> "goto", onReplyPage |-> FALSE, faults |-> 0, log |-> << >>,
    taken |-> << >> ]

MailIdle ==
  /\ incomingEmail = NoIncomingEmail
  /\ mailbox = << >>
  /\ OUTBOUND = << >>
  /\ poll = PollIdle
  /\ post = PostIdle
  /\ awake = "noop"
  /\ imap = NoImapClient
  /\ RetryIdle

Init ==
  /\ cfg \in Configs
  /\ portal \in Portals
  /\ clock = StartTick
  /\ NOW = 0
  /\ stateFile = NoFile
  /\ EMPTY_STATE = EmptyState
  /\ state = EmptyState
  /\ aliased = TRUE
  /\ INBOUND = << >>
  /\ pc = "start"
  /\ i = 0
  /\ errors = 0
  /\ schulmanagerException = FALSE
  /\ thrown = 0
  /\ failures = 0
  /\ pass = << >>
  /\ delivered = {}
  /\ writes = 0
  /\ probe = ProbeIdle
  /\ MailIdle

\* A write to the ledger object of the iteration. While state.ep and
\* state.sm are the objects of EMPTY_STATE (main.js:140), the write changes
\* EMPTY_STATE as well.
Mutate(st) ==
  /\ state' = st
  /\ EMPTY_STATE' = IF aliased THEN st ELSE EMPTY_STATE

\* The closures of the queued tasks lose the ledger (it was parsed anew).
Orphaned(queue) == [k \in 1..Len(queue) |-> [queue[k] EXCEPT !.live = FALSE]]

\* The closures over the notice object lose it (it was replaced).
OrphanedNotices(queue) ==
  [k \in 1..Len(queue) |->
     IF queue[k].handler = "notice" THEN [queue[k] EXCEPT !.live = FALSE]
     ELSE queue[k]]

\* main.js:131 readState: the parsed state file, or the objects of
\* EMPTY_STATE when there is no file. JSON.parse(JSON.stringify(x)) returns
\* a copy of these ledgers (string keys, numbers, booleans).
readState == IF stateFile.exists THEN stateFile.content ELSE EMPTY_STATE

\* main.js:1096-1099
ReadState ==
  /\ pc = "start"
  /\ NOW' = clock
  /\ state' = readState
  /\ aliased' = ~stateFile.exists
  /\ INBOUND' = IF stateFile.exists THEN Orphaned(INBOUND) ELSE INBOUND
  /\ schulmanagerException' = FALSE
  /\ writes' = 0
  /\ pc' = "schulmanager"
  /\ UNCHANGED << cfg, portal, clock, stateFile, EMPTY_STATE, i, errors,
                  thrown, failures, pass, delivered, probe, mailVars,
                  awake, imap, retryVars >>

\* main.js:1005 processSchulmanager
ProcessSchulmanager ==
  /\ pc = "schulmanager"
  /\ LET kept == pruneLetters(portal.letters, state.sm.letters)
     IN /\ Mutate([state EXCEPT !.sm.letters = kept])
        /\ INBOUND' = INBOUND
                      \o buildEmailsForLetters(readLetters(portal.letters, kept))
  /\ pc' = "teachers"
  /\ UNCHANGED << cfg, portal, clock, NOW, stateFile, aliased, i, errors,
                  schulmanagerException, thrown, failures, pass, delivered,
                  writes, probe, mailVars,
                  awake, imap, retryVars >>

\* main.js:1114: the exception of Schulmanager is kept and rethrown later.
SchulmanagerThrows ==
  /\ pc = "schulmanager"
  /\ thrown + failures < MaxFaults
  /\ thrown' = thrown + 1
  /\ schulmanagerException' = TRUE
  /\ pc' = "teachers"
  /\ UNCHANGED << cfg, portal, clock, NOW, stateFile, EMPTY_STATE, state,
                  aliased, INBOUND, i, errors, failures, pass, delivered,
                  writes, probe, mailVars,
                  awake, imap, retryVars >>

EpSections ==
  { "announcements", "inquiries", "threads", "substitutions", "notices",
    "events" }

\* main.js:1019-1021
Announcements ==
  /\ pc = "announcements"
  /\ INBOUND' = INBOUND \o buildEmailsForAnnouncements(portal.announcements,
                                                       state.ep.announcements)
  /\ pc' = "inquiries"
  /\ UNCHANGED << cfg, portal, clock, NOW, stateFile, EMPTY_STATE, state,
                  aliased, i, errors, schulmanagerException, thrown,
                  failures, pass, delivered, writes, probe, mailVars,
                  awake, imap, retryVars >>

\* main.js:1024-1025
Inquiries ==
  /\ pc = "inquiries"
  /\ LET r == buildEmailsForInquiries(portal.inquiries, state.ep.inquiries)
     IN /\ INBOUND' = INBOUND \o r.tasks
        /\ Mutate([state EXCEPT !.ep.inquiries = r.processedInquiries])
  /\ pc' = "threads"
  /\ UNCHANGED << cfg, portal, clock, NOW, stateFile, aliased, i, errors,
                  schulmanagerException, thrown, failures, pass, delivered,
                  writes, probe, mailVars,
                  awake, imap, retryVars >>

\* main.js:1028-1032
Threads ==
  /\ pc = "threads"
  /\ LET teachers == readThreadsMeta(portal.teachers,
                                     state.ep.lastSuccessfulRun)
         r == buildEmailsForThreads(teachers, state.ep.threads)
     IN /\ INBOUND' = INBOUND \o r.tasks
        /\ Mutate([state EXCEPT !.ep.threads = r.processedThreads])
  /\ pc' = "substitutions"
  /\ UNCHANGED << cfg, portal, clock, NOW, stateFile, aliased, i, errors,
                  schulmanagerException, thrown, failures, pass, delivered,
                  writes, probe, mailVars,
                  awake, imap, retryVars >>

\* main.js:1035
Substitutions ==
  /\ pc = "substitutions"
  /\ INBOUND' = INBOUND \o readSubstitutions(portal.substitutions,
                                             state.ep.hashes)
  /\ pc' = "notices"
  /\ UNCHANGED << cfg, portal, clock, NOW, stateFile, EMPTY_STATE, state,
                  aliased, i, errors, schulmanagerException, thrown,
                  failures, pass, delivered, writes, probe, mailVars,
                  awake, imap, retryVars >>

\* main.js:1038
NoticeBoard ==
  /\ pc = "notices"
  /\ LET r == readNoticeBoard(portal.notices, state.ep.hashes)
     IN /\ INBOUND' = OrphanedNotices(INBOUND) \o r.tasks
        /\ Mutate([state EXCEPT !.ep.hashes.notices = r.newHashes])
  /\ pc' = "events"
  /\ UNCHANGED << cfg, portal, clock, NOW, stateFile, aliased, i, errors,
                  schulmanagerException, thrown, failures, pass, delivered,
                  writes, probe, mailVars,
                  awake, imap, retryVars >>

\* main.js:1041
Events ==
  /\ pc = "events"
  /\ LET r == readEvents(portal.events, state.ep.events, NOW)
     IN /\ INBOUND' = INBOUND \o r.tasks
        /\ Mutate([state EXCEPT !.ep.events = r.previousEvents])
  /\ pc' = "send"
  /\ UNCHANGED << cfg, portal, clock, NOW, stateFile, aliased, i, errors,
                  schulmanagerException, thrown, failures, pass, delivered,
                  writes, probe, mailVars,
                  awake, imap, retryVars >>

\* A page operation of processElternPortal throws (the login, main.js:1012,
\* or a section): main() throws. sendMessagesToTeachers catches what its
\* page operations throw.
ElternPortalThrows ==
  /\ \/ pc \in EpSections
     \/ pc = "teachers" /\ post.phase # "posting"
  /\ thrown + failures < MaxFaults
  /\ thrown' = thrown + 1
  /\ pc' = "failed"
  /\ UNCHANGED << cfg, portal, clock, NOW, stateFile, EMPTY_STATE, state,
                  aliased, INBOUND, i, errors, schulmanagerException,
                  failures, pass, delivered, writes, probe, mailVars,
                  awake, imap, retryVars >>

---------------------------------------------------------------------------
(* sendEmails, main.js:662 *)

\* email.js:13 createTestEmail: one test message to the admin address, with
\* ok: () => {}. It carries no item of the portal; key holds numEmails, the
\* number its text states.
createTestEmail(numEmails) ==
  << Task("test", Email(NoMessageId, << >>, {}), "noop", << numEmails >>) >>

\* main.js:705: the report of failed sends.
SummaryTask == [ AdminTask("summary") EXCEPT !.ignoreFailure = TRUE ]

\* main.js:671-673 changed: e.ok() is called whatever became of the send.
invokesOkAlways(mute, sendSucceeded) == TRUE

\* main.js:671-673 changed: e.ok() is called after a successful send only.
invokesOkIfSent(mute, sendSucceeded) == sendSucceeded

\* main.js:671-673 and main.js:697-699: whether sendEmails calls e.ok().
invokesOk(mute, sendSucceeded) == mute \/ sendSucceeded

\* main.js:669 changed: the loop stays at a task whose send failed.
nextIndexRetrying(index, sent) == IF sent = "failed" THEN index ELSE index + 1

\* main.js:669 ++i: the loop goes on to the next task, whatever became of
\* the send.
nextIndex(index, sent) == index + 1

\* main.js:701 changed: no report of failed sends is queued.
needsSummaryNever(index, length, errorCount) == FALSE

\* main.js:701: after the last task of the queue, when errors were
\* collected, the report of the failed sends is pushed.
needsSummary(index, length, errorCount) ==
  index + 1 = length /\ errorCount > 0

\* main.js:1129-1138 changed: the state file is written in test mode too.
writesStateAlways(test) == TRUE

\* main.js:1129-1138: the state is updated and written unless in test mode.
writesState(test) == ~test

\* The position of the main loop after sendEmails has returned.
afterSend(test) == IF writesState(test) THEN "persist" ELSE "close"

\* The harness that runs sendEmails on its own, next to processNewEmail.
ProbeSendEmails == [ phase |-> "sendEmails" ]

\* The faults a run may have: MaxFaults, and one more where sendEmails is
\* run on its own (a send can fail before and after the report of the
\* failed sends).
FaultBudget == IF probe = ProbeSendEmails THEN MaxFaults + 1 ELSE MaxFaults

\* main.js:1128-1134 and main.js:663-668: in test mode the queue is replaced
\* by the test message; sendEmails returns at once when the queue is empty.
BeginSend ==
  /\ pc = "send"
  /\ INBOUND' = IF cfg.test THEN createTestEmail(Len(INBOUND)) ELSE INBOUND
  /\ i' = 0
  /\ errors' = 0
  /\ pass' = << >>
  /\ pc' = IF INBOUND' = << >> THEN afterSend(cfg.test) ELSE "sending"
  /\ UNCHANGED << cfg, portal, clock, NOW, stateFile, EMPTY_STATE, state,
                  aliased, schulmanagerException, thrown, failures,
                  delivered, writes, probe, mailVars,
                  awake, imap, retryVars >>

\* main.js:669-717: one round of the loop, for the task e = INBOUND[i].
\* sent: "none" (mute), "ok" or "failed" (the callback of sendMail);
\* throws: e.ok() throws.
SendStep ==
  /\ pc = "sending"
  /\ i < Len(INBOUND)
  /\ LET e == INBOUND[i + 1]
     IN \E sent \in IF cfg.mute THEN {"none"} ELSE {"ok", "failed"},
           throws \in BOOLEAN :
          LET called == invokesOk(cfg.mute, sent = "ok")
              errorsAfter == IF sent = "failed" /\ ~e.ignoreFailure
                               THEN errors + 1 ELSE errors
              summary == /\ ~cfg.mute
                         /\ needsSummary(i, Len(INBOUND), errorsAfter)
          IN /\ throws => (called /\ CanThrow(e) /\ thrown + failures < FaultBudget)
             /\ sent = "failed" => thrown + failures < FaultBudget
             /\ failures' = IF sent = "failed" THEN failures + 1 ELSE failures
             /\ pass' = Append(pass, [ task |-> e, sent |-> sent,
                                       okInvoked |-> called,
                                       okThrew |-> throws ])
             /\ delivered' = IF sent = "ok"
                               THEN delivered \cup e.email.carries
                               ELSE delivered
             /\ IF throws
                  THEN /\ pc' = "failed"
                       /\ thrown' = thrown + 1
                       /\ UNCHANGED << state, EMPTY_STATE, INBOUND, i,
                                       errors >>
                  ELSE /\ Mutate(IF called THEN ok(e, state) ELSE state)
                       /\ INBOUND' = IF summary THEN Append(INBOUND, SummaryTask)
                                     ELSE INBOUND
                       /\ errors' = IF summary THEN 0 ELSE errorsAfter
                       /\ i' = nextIndex(i, sent)
                       /\ UNCHANGED << pc, thrown >>
  /\ UNCHANGED << cfg, portal, clock, NOW, stateFile, aliased,
                  schulmanagerException, writes, probe, mailVars,
                  awake, imap, retryVars >>

\* main.js:721: the queue is dropped when the loop is through.
EndSend ==
  /\ pc = "sending"
  /\ i >= Len(INBOUND)
  /\ INBOUND' = << >>
  /\ pc' = afterSend(cfg.test)
  /\ UNCHANGED << cfg, portal, clock, NOW, stateFile, EMPTY_STATE, state,
                  aliased, i, errors, schulmanagerException, thrown,
                  failures, pass, delivered, writes, probe, mailVars,
                  awake, imap, retryVars >>

\* main.js:1135-1137: the watermark is set and the state file is written.
Persist ==
  /\ pc = "persist"
  /\ Mutate([state EXCEPT !.ep.lastSuccessfulRun = NOW])
  /\ stateFile' = FileWith(state')
  /\ writes' = writes + 1
  /\ pc' = "close"
  /\ UNCHANGED << cfg, portal, clock, NOW, aliased, INBOUND, i, errors,
                  schulmanagerException, thrown, failures, pass, delivered,
                  probe, mailVars,
                  awake, imap, retryVars >>

\* main.js:1171 changed: the wait never ends at once.
endsWaitAtOnceNever(outbound) == FALSE

\* main.js:1171: if (OUTBOUND.length) resolve()
endsWaitAtOnce(outbound) == outbound # << >>

\* main.js:1141-1175: the kept exception is rethrown; once ends the run;
\* otherwise the IMAP connection is checked, awake becomes the resolver of
\* a new promise, which is resolved at once when OUTBOUND holds a message,
\* and the timer is set.
Close ==
  /\ pc = "close"
  /\ LET to == IF schulmanagerException THEN "failed"
               ELSE IF cfg.once THEN "exit" ELSE "wait"
     IN /\ pc' = to
        /\ awake' = IF to # "wait" THEN awake
                    ELSE IF endsWaitAtOnce(OUTBOUND) THEN "resolved"
                    ELSE "pending"
        /\ imap' = IF to = "exit" THEN NoImapClient ELSE imap
  /\ UNCHANGED << cfg, portal, clock, NOW, stateFile, EMPTY_STATE, state,
                  aliased, INBOUND, i, errors, schulmanagerException,
                  thrown, failures, pass, delivered, writes, probe, mailVars,
                  retryVars >>

\* main.js:1155 checkImapConnection: the NOOP command fails, main() throws.
CheckImapConnectionThrows ==
  /\ pc = "close"
  /\ ~schulmanagerException
  /\ ~cfg.once
  /\ imap.connected
  /\ thrown + failures < MaxFaults
  /\ thrown' = thrown + 1
  /\ pc' = "failed"
  /\ UNCHANGED << cfg, portal, clock, NOW, stateFile, EMPTY_STATE, state,
                  aliased, INBOUND, i, errors, schulmanagerException,
                  failures, pass, delivered, writes, probe, mailVars,
                  awake, imap, retryVars >>

\* A call of the resolver of a promise: a pending promise is resolved, a
\* resolved one stays as it is, and the first awake (main.js:101) does
\* nothing.
resolve(promise) == IF promise = "pending" THEN "resolved" ELSE promise

\* main.js:1175: the timer resolves the promise and the loop goes on.
Wait ==
  /\ pc = "wait"
  /\ awake = "pending"
  /\ awake' = resolve(awake)
  /\ pc' = "start"
  /\ UNCHANGED << cfg, portal, clock, NOW, stateFile, EMPTY_STATE, state,
                  aliased, INBOUND, i, errors, schulmanagerException,
                  thrown, failures, pass, delivered, writes, probe, mailVars,
                  imap, retryVars >>

\* main.js:1163 changed: the loop is started wherever it is.
resumesAnywhere(position, promise) == promise = "resolved"

\* main.js:1163: the loop awaits the promise, and nothing else does.
resumes(position, promise) == position = "wait" /\ promise = "resolved"

\* main.js:1163-1177: the promise was resolved by awake() or at once; the
\* loop goes on with the next iteration.
Awakened ==
  /\ resumes(pc, awake)
  /\ pc' = "start"
  /\ UNCHANGED << cfg, portal, clock, NOW, stateFile, EMPTY_STATE, state,
                  aliased, INBOUND, i, errors, schulmanagerException,
                  thrown, failures, pass, delivered, writes, probe, mailVars,
                  awake, imap, retryVars >>

\* Date.now() in milliseconds.
MillisPerTick == (24 * 60 * 60 * 1000) \div TicksPerDay
DateNow == clock * MillisPerTick + millis

Min(a, b) == IF a <= b THEN a ELSE b

\* main.js:1210 changed: the wait is reset from the trigger time on.
backoffResetAtTrigger(retryWaitSeconds, millisSinceLastFailure) ==
  IF millisSinceLastFailure >= BACKOFF_TRIGGER_SECONDS * 1000
    THEN DEFAULT_RETRY_WAIT_SECONDS
    ELSE Min(retryWaitSeconds * 2, MAX_RETRY_WAIT_SECONDS)

\* main.js:1207-1214: the new value of RETRY_WAIT_SECONDS.
\* secondsSinceLastFailure is the quotient of the milliseconds by 1000, not
\* rounded.
backoff(retryWaitSeconds, millisSinceLastFailure) ==
  IF millisSinceLastFailure > BACKOFF_TRIGGER_SECONDS * 1000
    THEN DEFAULT_RETRY_WAIT_SECONDS
    ELSE Min(retryWaitSeconds * 2, MAX_RETRY_WAIT_SECONDS)

\* main.js:1195-1219: main() threw. The IMAP client is disposed of (a
\* running fetch fails), the wait is computed and slept, and main() is
\* called again.
Retry ==
  /\ pc = "failed"
  /\ LET nowEpochMillis == DateNow
         wait == backoff(RETRY_WAIT_SECONDS,
                         nowEpochMillis - LAST_FAILURE_EPOCH_MILLIS)
     IN /\ RETRY_WAIT_SECONDS' = wait
        /\ LAST_FAILURE_EPOCH_MILLIS' = nowEpochMillis
        /\ millis' = millis + wait * 1000
  /\ imap' = NoImapClient
  /\ poll' = IF poll.phase = "fetching" THEN [ poll EXCEPT !.phase = "failed" ]
             ELSE poll
  /\ pc' = IF incomingEmail.enabled THEN "main" ELSE "start"
  /\ UNCHANGED << cfg, portal, clock, NOW, stateFile, EMPTY_STATE, state,
                  aliased, INBOUND, i, errors, schulmanagerException,
                  thrown, failures, pass, delivered, writes, probe,
                  incomingEmail, mailbox, OUTBOUND, post, awake >>

\* main.js:1071-1073 createImapClient: the client connects and opens the
\* inbox, which raises the event mailboxOpen.
CreateImapClient ==
  /\ pc = "main"
  /\ imap' = [ connected |-> TRUE, events |-> 1 ]
  /\ pc' = "start"
  /\ UNCHANGED << cfg, portal, clock, NOW, stateFile, EMPTY_STATE, state,
                  aliased, INBOUND, i, errors, schulmanagerException,
                  thrown, failures, pass, delivered, writes, probe, mailVars,
                  awake, retryVars >>

\* The time main() takes until it throws: none, or what makes the failure
\* come BACKOFF_TRIGGER_SECONDS after the last one, or a millisecond more.
Gaps(retryWaitSeconds) ==
  { 0, (BACKOFF_TRIGGER_SECONDS - retryWaitSeconds) * 1000,
    (BACKOFF_TRIGGER_SECONDS - retryWaitSeconds) * 1000 + 1 }

\* main.js:1074-1092: createImapClient throws (the server is not found, or
\* some other error), and main() throws; gap is the time that took.
CreateImapClientThrows ==
  /\ pc = "main"
  /\ thrown < MaxRetries
  /\ \E gap \in Gaps(RETRY_WAIT_SECONDS) : millis' = millis + gap
  /\ thrown' = thrown + 1
  /\ pc' = "failed"
  /\ UNCHANGED << cfg, portal, clock, NOW, stateFile, EMPTY_STATE, state,
                  aliased, INBOUND, i, errors, schulmanagerException,
                  failures, pass, delivered, writes, probe, mailVars,
                  awake, imap, RETRY_WAIT_SECONDS, LAST_FAILURE_EPOCH_MILLIS >>

\* A day passes while the program sleeps between two iterations.
Tick ==
  /\ pc = "wait"
  /\ awake = "pending"
  /\ clock < StartTick + MaxDays * TicksPerDay
  /\ clock' = clock + TicksPerDay
  /\ UNCHANGED << cfg, portal, NOW, stateFile, EMPTY_STATE, state, aliased,
                  INBOUND, pc, i, errors, schulmanagerException, thrown,
                  failures, pass, delivered, writes, probe, mailVars,
                  awake, imap, retryVars >>

---------------------------------------------------------------------------
(* Incoming email, main.js:801 *)

\* Largest size of the inbox: its messages plus their recipients (To and Cc).
MaxLoad == 3

\* main.js:936: the size limit of a message on the portal, and the length
\* reserved for the prefix "[n/N] ".
ChunkSize == 512
PrefixSize == 8

\* The ids of the teachers of the model.
TeacherIds == { 7, 8 }

\* The forwarding address with the tag of a teacher (base+7@domain), and an
\* address that is not the forwarding address.
TaggedAddress(teacherId) == [ forwarding |-> TRUE, tag |-> teacherId ]
OtherAddress == [ forwarding |-> FALSE, tag |-> 0 ]

\* main.js:156 createIncomingEmailRegExp and main.js:827: the address
\* matches the forwarding address with a tag of digits.
matchesRegEx(address) == address.forwarding

\* main.js:866: the first group of the match, the tag.
teacherIdOf(address) == address.tag

\* A sender address; String.toLowerCase (main.js:839).
Sender(local, upper) == [ local |-> local, upper |-> upper ]
toLowerCase(address) == [ address EXCEPT !.upper = FALSE ]

\* The From headers of the model: none, a parent (in lower case or not)
\* and somebody else.
FromHeaders ==
  { << >>, << Sender("parent", FALSE) >>, << Sender("parent", TRUE) >>,
    << Sender("stranger", FALSE) >> }

\* In-Reply-To of the model: none, or the id of a message of thread 11 of
\* teacher 7 (main.js:419 thread-7-11-0).
NoReply == << >>
InReplyTos == { NoReply, << 7, 11 >> }

\* The lengths of the text: one chunk, or one character more.
TextLengths == { 1, ChunkSize + 1 }

\* The From header is only read when a recipient matches (main.js:829-834).
Addressed(message) ==
  \E k \in 1..Len(message.recipients) : matchesRegEx(message.recipients[k])

\* Reply and length only matter to a message that is forwarded.
Forwarded(message) ==
  /\ message.from = << Sender("parent", FALSE) >>
  /\ Addressed(message)

\* The messages with n recipients (To and Cc) that are not flagged
\* \Answered.
MessagesTo(n) ==
  { message \in
      [ from : FromHeaders,
        recipients : [ 1..n -> { TaggedAddress(t) : t \in TeacherIds }
                               \cup { OtherAddress } ],
        inReplyTo : InReplyTos, length : TextLengths, answered : { FALSE } ] :
      /\ ~Addressed(message) => message.from = << >>
      /\ ~Forwarded(message) =>
           (message.inReplyTo = NoReply /\ message.length = 1) }

\* The inboxes whose messages and recipients number exactly load.
RECURSIVE Inboxes(_)
Inboxes(load) ==
  IF load = 0 THEN { << >> }
  ELSE UNION { { Append(box, message) :
                   box \in Inboxes(load - 1 - n), message \in MessagesTo(n) } :
               n \in 0..(load - 1) }

Mailboxes == UNION { Inboxes(load) : load \in 0..MaxLoad }

\* CONFIG.options.incomingEmail: whether forwardingAddress is set (then
\* regEx is), and the senders that may forward.
IncomingEmails ==
  [ enabled : { TRUE }, forwardingAddress : BOOLEAN,
    allowForwardingFrom : { { Sender("parent", FALSE) } } ]

\* main.js:807: the messages fetched with {answered: false}.
fetch(box) ==
  SelectSeq([ k \in 1..Len(box) |-> k ], LAMBDA k : ~box[k].answered)

\* main.js:819-827: the recipients of To and Cc that match the forwarding
\* address.
matchingRecipients(message) ==
  SelectSeq(message.recipients, matchesRegEx)

\* main.js:833-842 changed: only a missing From header is rejected.
rejectedOnlyWithoutFrom(message, allowForwardingFrom) == message.from = << >>

\* main.js:833-842: the sender is rejected (rejectedFrom !== null).
rejected(message, allowForwardingFrom) ==
  \/ message.from = << >>
  \/ toLowerCase(message.from[1]) \notin allowForwardingFrom

\* main.js:860-863: the teacher and the thread of In-Reply-To.
replyTeacherId(message) ==
  IF message.inReplyTo = NoReply THEN -1 ELSE message.inReplyTo[1]
replyThreadId(message) ==
  IF message.inReplyTo = NoReply THEN -1 ELSE message.inReplyTo[2]

\* No thread id (undefined).
NoThread == 0

\* main.js:886-892: the message for one recipient. seq is the message that
\* markDone flags.
ForwardingTask(seq, message, recipient) ==
  LET teacherId == teacherIdOf(recipient)
      isReply == teacherId = replyTeacherId(message)
  IN [ teacherId |-> teacherId,
       replyThreadId |-> IF isReply THEN replyThreadId(message) ELSE NoThread,
       length |-> message.length,
       seq |-> seq ]

\* main.js:865-893 changed: a task for the first matching recipient only.
ForwardingTasksFirstOnly(seq, message) ==
  LET recipients == matchingRecipients(message)
  IN IF recipients = << >> THEN << >>
     ELSE << ForwardingTask(seq, message, recipients[1]) >>

\* main.js:865-893: one task for each matching recipient.
ForwardingTasks(seq, message) ==
  LET recipients == matchingRecipients(message)
  IN [ k \in 1..Len(recipients) |-> ForwardingTask(seq, message, recipients[k]) ]

\* The variables of the main loop but its queue and its position.
mainLoop ==
  << cfg, portal, clock, NOW, stateFile, EMPTY_STATE, state, aliased, i,
     errors, schulmanagerException, thrown, failures, pass, delivered, writes,
     probe, retryVars >>

\* main.js:734-742 and main.js:807: the handler of an event (mailboxOpen,
\* exists) calls processNewEmail, and the fetch of the unanswered messages
\* begins. The calls are taken one after the other. pushed and alerts keep
\* what all the calls so far pushed.
PollBegin ==
  /\ poll.phase # "fetching"
  /\ imap.events > 0
  /\ imap' = [ imap EXCEPT !.events = @ - 1 ]
  /\ poll' = [ poll EXCEPT !.phase = "fetching", !.fetched = fetch(mailbox),
                           !.next = 1, !.ignoredMessages = {},
                           !.numNewMessages = 0 ]
  /\ UNCHANGED << mainLoop, pc, awake, INBOUND, incomingEmail, mailbox, OUTBOUND, post >>

\* main.js:808-893: the body of the loop, for one fetched message.
PollMessage ==
  /\ poll.phase = "fetching"
  /\ poll.next <= Len(poll.fetched)
  /\ LET seq == poll.fetched[poll.next]
         message == mailbox[seq]
         counted == [ poll EXCEPT !.next = @ + 1, !.numNewMessages = @ + 1,
                                  !.ignoredMessages = @ \cup { seq } ]
         tasks == ForwardingTasks(seq, message)
     IN IF \/ ~incomingEmail.forwardingAddress
           \/ matchingRecipients(message) = << >>
          THEN /\ poll' = counted
               /\ UNCHANGED << INBOUND, OUTBOUND >>
          ELSE IF rejected(message, incomingEmail.allowForwardingFrom)
            THEN /\ poll' = [ counted EXCEPT !.alerts = Append(@, seq) ]
                 /\ INBOUND' = Append(INBOUND, AdminTask("rejectedSender"))
                 /\ UNCHANGED OUTBOUND
            ELSE /\ poll' = [ counted EXCEPT !.ignoredMessages = @ \ { seq },
                                             !.pushed = @ \o tasks ]
                 /\ OUTBOUND' = OUTBOUND \o tasks
                 /\ UNCHANGED INBOUND
  /\ UNCHANGED << mainLoop, pc, awake, imap, incomingEmail, mailbox, post >>

\* IMAP messageFlagsAdd(seqs, ['\\Answered'])
flagged(box, seqs) ==
  [ k \in 1..Len(box) |->
      IF k \in seqs THEN [ box[k] EXCEPT !.answered = TRUE ] ELSE box[k] ]

\* main.js:895-907: the ignored messages are flagged, and awake() is
\* called when a message was fetched.
PollEnd ==
  /\ poll.phase = "fetching"
  /\ poll.next > Len(poll.fetched)
  /\ mailbox' = flagged(mailbox, poll.ignoredMessages)
  /\ poll' = [ poll EXCEPT !.phase = "done" ]
  /\ awake' = IF poll.numNewMessages > 0 THEN resolve(awake) ELSE awake
  /\ UNCHANGED << mainLoop, pc, imap, INBOUND, incomingEmail, OUTBOUND, post >>

\* An operation of the IMAP client or the parser rejects: processNewEmail
\* ends with an exception, nothing is flagged.
PollThrows ==
  /\ poll.phase = "fetching"
  /\ poll' = [ poll EXCEPT !.phase = "failed" ]
  /\ UNCHANGED << mainLoop, pc, awake, imap, INBOUND, incomingEmail, mailbox, OUTBOUND, post >>

\* Largest number of emails that arrive at the inbox during a run.
MaxArrivals == 1

\* The emails that parents send during a run: to one teacher or to two, in
\* a new thread, of a few characters.
ParentMessages ==
  [ from : { << Sender("parent", FALSE) >> },
    recipients : { << TaggedAddress(7) >>,
                   << TaggedAddress(7), TaggedAddress(8) >> },
    inReplyTo : { NoReply }, length : { 1 }, answered : { FALSE } ]

\* The email by which the portal notifies of a new announcement: it is not
\* addressed to a teacher.
Notification ==
  [ from |-> << >>, recipients |-> << OtherAddress >>, inReplyTo |-> NoReply,
    length |-> 1, answered |-> FALSE ]

\* main.js:738-741: the IMAP server reports a new message to a connected
\* client, which raises the event exists.
exists(client) ==
  IF client.connected THEN [ client EXCEPT !.events = @ + 1 ] ELSE client

\* The email of a parent arrives at the inbox.
Arrive ==
  /\ Len(mailbox) < MaxArrivals
  /\ \E message \in ParentMessages : mailbox' = Append(mailbox, message)
  /\ imap' = exists(imap)
  /\ UNCHANGED << mainLoop, pc, awake, INBOUND, incomingEmail, OUTBOUND, poll,
                  post >>

\* The school publishes an announcement on the portal, and the
\* notification of the portal arrives at the inbox.
Publish ==
  /\ Len(mailbox) < MaxArrivals
  /\ Len(portal.announcements) < MaxItems
  /\ portal' = [ portal EXCEPT
                   !.announcements = Descending(Len(portal.announcements) + 1) ]
  /\ mailbox' = Append(mailbox, Notification)
  /\ imap' = exists(imap)
  /\ UNCHANGED << cfg, clock, NOW, stateFile, EMPTY_STATE, state, aliased, i,
                  errors, schulmanagerException, thrown, failures, pass,
                  delivered, writes, probe, retryVars, pc, awake, INBOUND,
                  incomingEmail, OUTBOUND, poll, post >>

---------------------------------------------------------------------------
(* Messages to teachers, main.js:917 *)

\* main.js:936-937
capacity(length) ==
  IF length <= ChunkSize THEN ChunkSize ELSE ChunkSize - PrefixSize
numParts(length) == (length + capacity(length) - 1) \div capacity(length)

\* The number of characters of a number (string concatenation, main.js:954).
RECURSIVE digits(_)
digits(n) == IF n < 10 THEN 1 ELSE 1 + digits(n \div 10)

\* main.js:954: the prefix of part index of parts: none, or "[n/N] " as the
\* pair of its numbers.
NoPrefix == << >>
prefix(index, parts) ==
  IF parts = 1 THEN NoPrefix ELSE << index + 1, parts >>

\* The length of the prefix: "[", "/", "]", " " and the two numbers.
prefixLength(pre) ==
  IF pre = NoPrefix THEN 0 ELSE 4 + digits(pre[1]) + digits(pre[2])

\* String.substring(first, last) of a text of the given length, as the
\* positions it covers: first inclusive, last exclusive, both cut at the end
\* of the text.
substring(length, first, last) ==
  [ first |-> Min(first, length), last |-> Min(last, length) ]

\* main.js:956-957: what is typed into the form for part index.
chunk(length, index) ==
  [ prefix |-> prefix(index, numParts(length)),
    slice |-> substring(length, index * capacity(length),
                        (index + 1) * capacity(length)) ]

\* The length of what is typed.
chunkLength(typed) ==
  prefixLength(typed.prefix) + typed.slice.last - typed.slice.first

\* main.js:941 changed: no message is posted as a reply.
isReplyNever(threadId) == FALSE

\* main.js:941: if (msg.replyThreadId)
isReply(threadId) == threadId # NoThread

\* main.js:980: the id of the thread that the first part opened, read from
\* the response page.
NewThreadId == 12

\* main.js:930 changed: the queue is not cleared.
clearedNever(outbound) == outbound

\* main.js:930: OUTBOUND = []
cleared(outbound) == << >>

\* main.js:1016 and main.js:929-932: processElternPortal calls
\* sendMessagesToTeachers; the queue is copied and cleared. With an empty
\* queue the function returns without an await. taken keeps the copies of
\* all the calls so far.
PostBegin ==
  /\ pc = "teachers"
  /\ post.phase # "posting"
  /\ post' = [ post EXCEPT !.phase = IF OUTBOUND = << >> THEN "done"
                                     ELSE "posting",
                           !.outboundTmp = OUTBOUND,
                           !.msg = 1, !.i = 0, !.step = "goto",
                           !.onReplyPage = FALSE, !.taken = @ \o OUTBOUND ]
  /\ OUTBOUND' = cleared(OUTBOUND)
  /\ pc' = IF OUTBOUND = << >> THEN "announcements" ELSE pc
  /\ UNCHANGED << mainLoop, awake, imap, INBOUND, incomingEmail, mailbox, poll >>

\* main.js:964-966 changed: the email is not flagged before the click.
marksDoneNever(index) == FALSE

\* main.js:964-966: msg.markDone() is awaited for the first part.
marksDone(index) == index = 0

\* main.js:941-999: one operation on the page (or on the inbox) for part i
\* of the message msg; succeeded: it did not throw. The operations of a
\* part are goto (navigation to the form, and the subject of a new thread),
\* type (the text), markDone (first part only), click (submit, and the
\* response) and eval (the id of the new thread is read from the response
\* page). The log notes the thread of the form and what the form holds.
PostStep ==
  /\ post.phase = "posting"
  /\ post.msg <= Len(post.outboundTmp)
  /\ \E succeeded \in BOOLEAN :
       LET msg == post.outboundTmp[post.msg]
           stays == /\ post.step = "goto"
                    /\ isReply(msg.replyThreadId)
                    /\ post.onReplyPage
           entry == [ msg |-> post.msg, seq |-> msg.seq, part |-> post.i,
                      op |-> IF stays THEN "stay" ELSE post.step,
                      ok |-> succeeded, teacherId |-> msg.teacherId,
                      thread |-> IF isReply(msg.replyThreadId)
                                   THEN msg.replyThreadId ELSE NoThread,
                      typed |-> chunk(msg.length, post.i) ]
           logged == [ post EXCEPT !.log = Append(@, entry) ]
           advanced == IF post.i + 1 < numParts(msg.length)
                         THEN [ logged EXCEPT !.i = @ + 1, !.step = "goto" ]
                         ELSE [ logged EXCEPT !.msg = @ + 1, !.i = 0,
                                              !.step = "goto",
                                              !.onReplyPage = FALSE ]
       IN /\ ~succeeded => (post.faults < MaxFaults /\ ~stays)
          /\ IF ~succeeded
               THEN \* main.js:988-999: catch
                    /\ post' = [ logged EXCEPT !.faults = @ + 1, !.msg = @ + 1,
                                               !.i = 0, !.step = "goto",
                                               !.onReplyPage = FALSE ]
                    /\ INBOUND' = Append(INBOUND, AdminTask("teacherError"))
                    /\ UNCHANGED mailbox
               ELSE /\ UNCHANGED INBOUND
                    /\ CASE post.step = "goto" ->
                              /\ post' = [ logged EXCEPT
                                             !.step = "type",
                                             !.onReplyPage =
                                               isReply(msg.replyThreadId) ]
                              /\ UNCHANGED mailbox
                         [] post.step = "type" ->
                              /\ post' = [ logged EXCEPT
                                             !.step = IF marksDone(post.i)
                                                        THEN "markDone"
                                                        ELSE "click" ]
                              /\ UNCHANGED mailbox
                         [] post.step = "markDone" ->
                              /\ post' = [ logged EXCEPT !.step = "click" ]
                              /\ mailbox' = flagged(mailbox, { msg.seq })
                         [] post.step = "click" ->
                              /\ post' =
                                   IF /\ numParts(msg.length) > 1
                                      /\ msg.replyThreadId = NoThread
                                     THEN [ logged EXCEPT !.step = "eval" ]
                                     ELSE advanced
                              /\ UNCHANGED mailbox
                         [] post.step = "eval" ->
                              /\ post' =
                                   [ advanced EXCEPT
                                       !.outboundTmp[post.msg].replyThreadId =
                                         NewThreadId ]
                              /\ UNCHANGED mailbox
  /\ UNCHANGED << mainLoop, pc, awake, imap, incomingEmail, OUTBOUND, poll >>

\* main.js:1000: every message of the copy was handled; processElternPortal
\* goes on with the sections.
PostEnd ==
  /\ post.phase = "posting"
  /\ post.msg > Len(post.outboundTmp)
  /\ post' = [ post EXCEPT !.phase = "done" ]
  /\ pc' = "announcements"
  /\ UNCHANGED << mainLoop, awake, imap, INBOUND, incomingEmail, mailbox, OUTBOUND, poll >>

---------------------------------------------------------------------------
(* The steps of the main loop *)

Next ==
  \/ ReadState
  \/ ProcessSchulmanager
  \/ SchulmanagerThrows
  \/ PostBegin
  \/ Announcements
  \/ Inquiries
  \/ Threads
  \/ Substitutions
  \/ NoticeBoard
  \/ Events
  \/ ElternPortalThrows
  \/ BeginSend
  \/ SendStep
  \/ EndSend
  \/ Persist
  \/ Close
  \/ Wait
  \/ Retry
  \/ Tick

Spec == Init /\ [][Next]_vars

TypeOK ==
  /\ pc \in { "main", "start", "schulmanager", "teachers", "send", "sending",
              "persist", "close", "wait", "failed", "exit" } \cup EpSections
  /\ pc = "sending" => i \in 0..Len(INBOUND)


---------------------------------------------------------------------------
(* sendEmails and the commit handler *)

\* C1 as stated: for every task drained by sendEmails, whatever the
\* options, ok() is invoked if and only if the send of the task's email
\* succeeded.
C1_OkIffSendSucceeded ==
  \A k \in 1..Len(pass) : pass[k].okInvoked <=> (pass[k].sent = "ok")

\* C1: without the option mute, ok() is invoked for a drained task if and
\* only if the send of its email succeeded; with mute no email is sent and
\* ok() is invoked for every drained task.
C1_OkIffSendSucceededUnlessMute ==
  \A k \in 1..Len(pass) :
    /\ ~cfg.mute => (pass[k].okInvoked <=> (pass[k].sent = "ok"))
    /\ cfg.mute => (pass[k].sent = "none" /\ pass[k].okInvoked)

\* One pass without mute in which a send failed (no ok()) and another
\* succeeded (ok()).
C1_Witness ==
  /\ ~cfg.mute
  /\ \E k \in 1..Len(pass) : pass[k].sent = "failed" /\ ~pass[k].okInvoked
  /\ \E k \in 1..Len(pass) : pass[k].sent = "ok" /\ pass[k].okInvoked


---------------------------------------------------------------------------
(* The ledger against the deliveries *)

\* The items a ledger records as sent, named as the emails carry them.
Marked(st) ==
  { << "announcement", id >> :
      id \in { a \in DOMAIN st.ep.announcements :
                 Truthy(st.ep.announcements, a) } }
  \cup UNION { { << "thread", id, index >> :
                   index \in { n \in DOMAIN st.ep.threads[id] :
                                 Truthy(st.ep.threads[id], n) } } :
               id \in DOMAIN st.ep.threads }
  \cup UNION { { << "inquiry", index, j >> :
                   j \in 0..(st.ep.inquiries[index] - 1) } :
               index \in DOMAIN st.ep.inquiries }
  \cup (IF st.ep.hashes.subs = NoHash THEN {}
        ELSE { << "substitutions", st.ep.hashes.subs >> })
  \cup { << "notice", h >> :
           h \in { n \in DOMAIN st.ep.hashes.notices :
                     Truthy(st.ep.hashes.notices, n) } }
  \cup { << "event", html, 1 >> : html \in DOMAIN st.ep.events }
  \cup { << "letter", id >> :
           id \in { l \in DOMAIN st.sm.letters : Truthy(st.sm.letters, l) } }

\* The ledger in memory when it is about to be written, and the one in
\* state.json.
PersistedLedgers ==
  (IF pc = "persist" THEN { state } ELSE {})
  \cup (IF stateFile.exists THEN { stateFile.content } ELSE {})

\* C2 as stated, for the runs without the option mute: in the ledger at
\* persist time and in state.json, an item is recorded as sent only if an
\* email for it was delivered successfully.
C2_MarkedOnlyIfDelivered ==
  ~cfg.mute => \A st \in PersistedLedgers : Marked(st) \subseteq delivered


---------------------------------------------------------------------------
(* Failed deliveries are offered again *)

RegeneratedKinds == { "announcement", "notice", "substitutions", "event" }

\* The positions of the last pass of sendEmails whose send failed.
FailedEntries ==
  { k \in 1..Len(pass) :
      pass[k].sent = "failed" /\ pass[k].task.kind \in RegeneratedKinds }

\* The items of a failed entry that the ledger could record as sent: what
\* the email carries, for an event email the new events.
ItemsOfEntry(k) ==
  IF pass[k].task.kind = "event"
    THEN { it \in pass[k].task.email.carries : it[3] = 1 }
    ELSE pass[k].task.email.carries

\* The event of this row is upcoming at the time now (main.js:609).
InWindow(html, now) ==
  \E k \in 1..Len(portal.events) :
    /\ portal.events[k].html = html
    /\ LET ts == readEventsInternal(portal.events, now)[k].ts
       IN /\ ts >= todayZero(now)
          /\ ts <= todayZero(now) + LookaheadDays * TicksPerDay

Queued(item) == \E k \in 1..Len(INBOUND) : item \in INBOUND[k].email.carries

\* After the iteration was persisted: no item of a failed task is marked.
FailedNotMarked(items(_)) ==
  (pc = "close" /\ ~cfg.test) =>
    \A k \in FailedEntries : items(k) \cap Marked(stateFile.content) = {}

\* After the diff of the next iteration: the items of the tasks that failed
\* in the last pass are queued again.
FailedRegenerated(items(_)) ==
  pc = "send" => \A k \in FailedEntries : \A it \in items(k) : Queued(it)

UndeliveredItemsOfEntry(k) ==
  { it \in ItemsOfEntry(k) \ delivered :
      pass[k].task.kind = "event" => InWindow(it[2], NOW) }

---------------------------------------------------------------------------
(* The frontier of a thread *)

\* The message positions of thread id that the ledger st marks as sent.
MarkedPositions(st, id) ==
  { n \in DOMAIN st.ep.threads[id] : Truthy(st.ep.threads[id], n) }

IsPrefix(positions) == \A n \in positions : \A m \in 0..(n - 1) : m \in positions

\* The ledger in memory and the one in state.json.
Ledgers == { state } \cup (IF stateFile.exists THEN { stateFile.content } ELSE {})

---------------------------------------------------------------------------
(* The watermark lastSuccessfulRun *)

\* The thread messages the portal shows.
PortalThreadMessages ==
  UNION { { << "thread", t.id, index >> : index \in 0..(t.messages - 1) } :
          t \in Range(AllThreads(portal.teachers)) }

\* C9 as stated: after the diff of an iteration, every thread message that
\* is on the portal and not marked as sent in the ledger has a task in the
\* queue, however old the thread is.
C9_UnmarkedThreadMessageOffered ==
  pc = "send" =>
    \A it \in PortalThreadMessages \ Marked(state) : Queued(it)


---------------------------------------------------------------------------
(* One category's diff function, run on its own *)

MainCategories ==
  { "announcements", "threads", "inquiries", "substitutions", "notices",
    "events", "letters" }

EpCategories == { "inquiriesEP", "substitutionsEP", "noticesEP", "eventsEP" }

Categories == MainCategories \cup EpCategories \cup { "news" }

\* isy-schule.js:10 INITIAL_STATE
EmptyStateIsy == [ news |-> EmptyMap ]

\* One run of the diff function of category cat over the scraped items
\* fresh and the ledger st, at the time now: the tasks it pushes and the
\* ledger it leaves.
RunDiff(cat, fresh, st, now) ==
  CASE cat = "announcements" ->
         [ tasks |-> buildEmailsForAnnouncements(fresh, st.ep.announcements),
           ledger |-> st ]
    [] cat = "threads" ->
         LET r == buildEmailsForThreads(
                    readThreadsMeta(fresh, st.ep.lastSuccessfulRun),
                    st.ep.threads)
         IN [ tasks |-> r.tasks,
              ledger |-> [st EXCEPT !.ep.threads = r.processedThreads] ]
    [] cat = "inquiries" ->
         LET r == buildEmailsForInquiries(fresh, st.ep.inquiries)
         IN [ tasks |-> r.tasks,
              ledger |-> [st EXCEPT !.ep.inquiries = r.processedInquiries] ]
    [] cat = "substitutions" ->
         [ tasks |-> readSubstitutions(fresh, st.ep.hashes), ledger |-> st ]
    [] cat = "notices" ->
         LET r == readNoticeBoard(fresh, st.ep.hashes)
         IN [ tasks |-> r.tasks,
              ledger |-> [st EXCEPT !.ep.hashes.notices = r.newHashes] ]
    [] cat = "events" ->
         LET r == readEvents(fresh, st.ep.events, now)
         IN [ tasks |-> r.tasks,
              ledger |-> [st EXCEPT !.ep.events = r.previousEvents] ]
    [] cat = "letters" ->
         LET kept == pruneLetters(fresh, st.sm.letters)
         IN [ tasks |-> buildEmailsForLetters(readLetters(fresh, kept)),
              ledger |-> [st EXCEPT !.sm.letters = kept] ]
    [] cat = "news" ->
         [ tasks |-> readNews(fresh, st.news), ledger |-> st ]
    [] cat = "inquiriesEP" ->
         LET r == buildEmailsForInquiriesEP(fresh, st.inquiries)
         IN [ tasks |-> r.tasks,
              ledger |-> [st EXCEPT !.inquiries = r.inquiries] ]
    [] cat = "substitutionsEP" ->
         LET r == readSubstitutionsEP(scrapeSubstitutions(fresh, now),
                                      st.hashes.substitutions)
         IN [ tasks |-> r.tasks,
              ledger |-> [st EXCEPT !.hashes.substitutions = r.substitutions] ]
    [] cat = "noticesEP" ->
         LET r == readNoticeBoardEP(fresh, st.hashes.notices)
         IN [ tasks |-> r.tasks,
              ledger |-> [st EXCEPT !.hashes.notices = r.newHashes] ]
    [] cat = "eventsEP" ->
         LET r == readEventsEP(fresh, st.events, now)
         IN [ tasks |-> r.tasks, ledger |-> [st EXCEPT !.events = r.events] ]

\* ok() of every task of the queue, in queue order (sendEmails when every
\* send succeeds).
RECURSIVE RunOk(_, _, _)
RunOk(cat, tasks, st) ==
  IF tasks = << >> THEN st
  ELSE RunOk(cat, Tail(tasks),
             IF cat \in MainCategories THEN ok(Head(tasks), st)
             ELSE okEP(Head(tasks), st))


\* The seen-sets over the keys: any subset of them is marked.
MarkMaps(keys) == { [ k \in S |-> 1 ] : S \in SUBSET keys }

\* The notice ledgers: a digest maps to 1 (sent) or 0 (email failed).
NoticeMaps(keys) == UNION { [ S -> {0, 1} ] : S \in SUBSET keys }

\* Ledger entries of events: one of today, one of yesterday (expired) and
\* one whose date did not parse, stored with the time of an earlier run.
EventLedgerPool ==
  { [ html |-> 1, ts |-> StartDay * TicksPerDay ],
    [ html |-> 4, ts |-> (StartDay - 1) * TicksPerDay ],
    [ html |-> 3, ts |-> StartDay * TicksPerDay ] }

EventLedgerLists ==
  { l \in DistinctSeqsUpTo(EventLedgerPool, MaxItems) :
      \A a, b \in 1..Len(l) : a < b => l[a].html < l[b].html }

\* The days of a plan page: of yesterday or of today, with an empty table
\* (the header row only) or with one substitution.
DayPool ==
  [ html : 1..MaxItems, dayOfMonth : { StartDay, StartDay + 1 },
    rows : { 1, 2 } ]

DayLists ==
  { s \in DistinctSeqsUpTo(DayPool, MaxItems) :
      \A a, b \in 1..Len(s) : a < b => s[a].html < s[b].html }

\* The inquiries of elternportal.js: inquiry k has one or two messages.
InquiryListsEP ==
  { [ k \in 1..Len(c) |-> [ j \in 1..c[k] |-> << k, j >> ] ] :
      c \in InquiryLists }

\* The pairs of scraped items and ledger on which a category's diff runs.
DiffInputs(cat) ==
  CASE cat = "announcements" ->
         { [ fresh |-> f,
             ledger |-> [EmptyState EXCEPT !.ep.announcements = m] ] :
           f \in AnnouncementLists, m \in MarkMaps(1..MaxItems) }
    [] cat = "threads" ->
         { [ fresh |-> f, ledger |-> [EmptyState EXCEPT !.ep.threads = m] ] :
           f \in TeacherLists,
           m \in { EmptyMap } \cup
                 { [ id \in {11} |-> p ] : p \in MarkMaps(0..(MaxItems - 1)) } }
    [] cat = "inquiries" ->
         { [ fresh |-> f, ledger |-> [EmptyState EXCEPT !.ep.inquiries = m] ] :
           f \in InquiryLists,
           m \in UNION { [ 0..(n - 1) -> 0..2 ] : n \in 0..MaxItems } }
    [] cat = "substitutions" ->
         { [ fresh |-> f, ledger |-> [EmptyState EXCEPT !.ep.hashes.subs = h] ] :
           f \in 1..MaxItems,
           h \in { NoHash } \cup { md5(x) : x \in 1..MaxItems } }
    [] cat = "notices" ->
         { [ fresh |-> f,
             ledger |-> [EmptyState EXCEPT !.ep.hashes.notices = m] ] :
           f \in SeqsUpTo(1..MaxItems, MaxItems),
           m \in NoticeMaps({ md5(x) : x \in 1..MaxItems }) }
    [] cat = "events" ->
         { [ fresh |-> f,
             ledger |-> [EmptyState EXCEPT !.ep.events =
                           [ h \in { e.html : e \in Range(l) } |->
                               (CHOOSE e \in Range(l) : e.html = h).ts ]] ] :
           f \in EventRowLists, l \in EventLedgerLists }
    [] cat = "letters" ->
         { [ fresh |-> f, ledger |-> [EmptyState EXCEPT !.sm.letters = m] ] :
           f \in LetterLists, m \in MarkMaps(1..MaxItems) }
    [] cat = "news" ->
         { [ fresh |-> f, ledger |-> [ news |-> m ] ] :
           f \in LetterLists, m \in MarkMaps(1..MaxItems) }
    [] cat = "inquiriesEP" ->
         { [ fresh |-> f, ledger |-> [EmptyStateEP EXCEPT !.inquiries = m] ] :
           f \in InquiryListsEP,
           m \in MarkMaps({ inquiryHash(<< k, j >>) :
                            k \in 1..MaxItems, j \in 1..2 }) }
    [] cat = "substitutionsEP" ->
         { [ fresh |-> f,
             ledger |-> [EmptyStateEP EXCEPT !.hashes.substitutions = m] ] :
           f \in DayLists,
           m \in MarkMaps({ md5(x) : x \in 1..MaxItems }) }
    [] cat = "noticesEP" ->
         { [ fresh |-> f,
             ledger |-> [EmptyStateEP EXCEPT !.hashes.notices = m] ] :
           f \in SeqsUpTo(1..MaxItems, MaxItems),
           m \in NoticeMaps({ noticeHash(x) : x \in 1..MaxItems }) }
    [] cat = "eventsEP" ->
         { [ fresh |-> f, ledger |-> [EmptyStateEP EXCEPT !.events = l] ] :
           f \in EventRowLists, l \in EventLedgerLists }

\* The main loop rests at a position.
MainLoopAt(position) ==
  /\ cfg = [ mute |-> FALSE, test |-> FALSE, once |-> FALSE ]
  /\ portal = [ announcements |-> << >>, inquiries |-> << >>,
                teachers |-> << >>, substitutions |-> 1, notices |-> << >>,
                events |-> << >>, letters |-> << >> ]
  /\ clock = StartTick
  /\ NOW = StartTick
  /\ stateFile = NoFile
  /\ EMPTY_STATE = EmptyState
  /\ state = EmptyState
  /\ aliased = TRUE
  /\ INBOUND = << >>
  /\ pc = position
  /\ i = 0
  /\ errors = 0
  /\ schulmanagerException = FALSE
  /\ thrown = 0
  /\ failures = 0
  /\ pass = << >>
  /\ delivered = {}
  /\ writes = 0

\* The main loop does not run while a diff function is run on its own.
MainLoopIdle == MainLoopAt("diff")

InitDiff ==
  /\ MainLoopIdle
  /\ MailIdle
  /\ \E cat \in Categories : \E in \in DiffInputs(cat) :
       probe = [ phase |-> "input", cat |-> cat, fresh |-> in.fresh,
                 now |-> StartTick, before |-> in.ledger,
                 ledger |-> in.ledger, first |-> << >>, second |-> << >> ]

main == << cfg, portal, clock, NOW, stateFile, EMPTY_STATE, state, aliased,
           INBOUND, pc, i, errors, schulmanagerException, thrown, failures,
           pass, delivered, writes, mailVars, awake, imap, retryVars >>

\* The diff function runs on the scraped items and the ledger.
DiffStep ==
  /\ probe.phase = "input"
  /\ LET r == RunDiff(probe.cat, probe.fresh, probe.ledger, probe.now)
     IN probe' = [probe EXCEPT !.phase = "diffed", !.first = r.tasks,
                               !.ledger = r.ledger]
  /\ UNCHANGED main

\* It runs again on the same items and the same ledger object; no ok() has
\* run.
DiffAgain ==
  /\ probe.phase = "diffed"
  /\ LET r == RunDiff(probe.cat, probe.fresh, probe.ledger, probe.now)
     IN probe' = [probe EXCEPT !.phase = "rediffed", !.second = r.tasks,
                               !.ledger = r.ledger]
  /\ UNCHANGED main

\* ok() of every task the diff produced.
Commit ==
  /\ probe.phase = "diffed"
  /\ probe' = [probe EXCEPT !.phase = "committed",
                            !.ledger = RunOk(probe.cat, probe.first, @)]
  /\ UNCHANGED main

\* The diff function runs on the same items and the committed ledger.
DiffAfterCommit ==
  /\ probe.phase = "committed"
  /\ LET r == RunDiff(probe.cat, probe.fresh, probe.ledger, probe.now)
     IN probe' = [probe EXCEPT !.phase = "recheck", !.second = r.tasks,
                               !.ledger = r.ledger]
  /\ UNCHANGED main

NextDiff == DiffStep \/ DiffAgain \/ Commit \/ DiffAfterCommit

SpecDiff == InitDiff /\ [][NextDiff]_vars


---------------------------------------------------------------------------
(* No loss *)

\* The events of the portal that are upcoming at the time now.
UpcomingRows(rows, now) ==
  SelectSeq(readEventsInternal(rows, now),
            LAMBDA e : /\ e.ts >= todayZero(now)
                       /\ e.ts <= todayZero(now) + LookaheadDays * TicksPerDay)

\* The items the portal shows, named as the emails carry them; of the
\* events, the upcoming ones.
PortalItems ==
  { << "announcement", id >> : id \in Range(portal.announcements) }
  \cup PortalThreadMessages
  \cup UNION { { << "inquiry", k - 1, j >> :
                   j \in 0..(portal.inquiries[k] - 1) } :
               k \in 1..Len(portal.inquiries) }
  \cup { << "substitutions", md5(portal.substitutions) >> }
  \cup { << "notice", md5(n) >> : n \in Range(portal.notices) }
  \cup { << "event", e.html, 1 >> : e \in Range(UpcomingRows(portal.events, NOW)) }
  \cup { << "letter", id >> : id \in Range(portal.letters) }

\* C4 as stated (events: the upcoming ones): after all diff functions of
\* an iteration have run, every item that the portal shows and the ledger
\* does not record as sent has a task in INBOUND whose email carries it.
C4_NoLoss ==
  (pc = "send" /\ ~schulmanagerException) =>
    \A it \in PortalItems \ Marked(state) : Queued(it)

---------------------------------------------------------------------------
(* Idempotence of the diff, and no duplicate after commit *)

\* The emails of a queue, with the kind of their tasks.
EmailsOf(tasks) ==
  { [ kind |-> tasks[k].kind, email |-> tasks[k].email ] : k \in 1..Len(tasks) }

\* C5 as stated: for every category, the diff function run twice in a row
\* on the same items and the same ledger object, with no ok() in between,
\* produces the same set of tasks the second time.
C5_DiffIdempotent ==
  probe.phase = "rediffed" => EmailsOf(probe.second) = EmailsOf(probe.first)

\* C6 as stated: for every category, once ok() of every task of a diff has
\* run, the diff over the same items and the resulting ledger produces zero
\* tasks.
C6_NoTaskAfterCommit ==
  probe.phase = "recheck" => probe.second = << >>

\* C6: ... produces no task for an item; readEvents of elternportal.js
\* queues its report of the events whose date did not parse on every run.
C6_NoItemTaskAfterCommit ==
  probe.phase = "recheck" =>
    \A k \in 1..Len(probe.second) : probe.second[k].kind = "eventErrors"

\* Two announcements were queued and committed, and the diff ran again.
C6_Witness ==
  /\ probe.phase = "recheck"
  /\ probe.cat = "announcements"
  /\ Len(probe.first) = 2
  /\ probe.second = << >>


---------------------------------------------------------------------------
(* Thread ordering *)

\* The synthetic message id of position index of the thread or inquiry of
\* task t. The teacher of the threads of the model has the id 7.
PositionMessageId(t, index) ==
  IF t.kind = "thread" THEN threadMessageId(7, t.key[1], index)
  ELSE inquiryMessageId(t.key[1], index)

---------------------------------------------------------------------------
(* Removed events *)

EventCategories == { "events", "eventsEP" }

\* The entries [html, ts] of the events ledger st of category cat.
EventEntries(cat, st) ==
  IF cat = "events"
    THEN { [ html |-> h, ts |-> st.ep.events[h] ] : h \in DOMAIN st.ep.events }
    ELSE Range(st.events)

\* The entry is in the freshly computed upcoming set: main.js compares the
\* html, elternportal.js compares with eventsMatch.
IsUpcoming(cat, entry, rows, now) ==
  IF cat = "events"
    THEN \E e \in Range(UpcomingRows(rows, now)) : e.html = entry.html
    ELSE \E e \in Range(SelectSeq(readEventsInternalEP(rows),
                                  LAMBDA r : ~r.error)) :
           /\ eventsMatch(e, entry)
           /\ e.ts >= todayZero(now)
           /\ e.ts <= todayZero(now) + LookaheadDays * TicksPerDay

Expired(entry, now) == entry.ts < todayZero(now)

\* The ledger entries that readEvents has to report as removed.
RemovedEntries ==
  { H \in EventEntries(probe.cat, probe.before) :
      /\ ~Expired(H, probe.now)
      /\ ~IsUpcoming(probe.cat, H, probe.fresh, probe.now) }

EventEmails(tasks) == SelectSeq(tasks, LAMBDA t : t.kind = "event")

\* C10: for every entry H of the events ledger that is not expired and is
\* absent from the upcoming set, readEvents queues exactly one event email,
\* which lists H as removed, and ok() of the task deletes H from the
\* ledger; an expired entry is pruned and is not listed as removed.
C10_RemovedEventReported ==
  (probe.phase \in { "diffed", "committed" } /\ probe.cat \in EventCategories)
  =>
    /\ \A H \in RemovedEntries :
         /\ Len(EventEmails(probe.first)) = 1
         /\ << "event", H.html, -1 >> \in EventEmails(probe.first)[1].email.carries
         /\ probe.phase = "committed" =>
              H \notin EventEntries(probe.cat, probe.ledger)
    /\ \A H \in EventEntries(probe.cat, probe.before) :
         Expired(H, probe.now) =>
           /\ H \notin EventEntries(probe.cat, probe.ledger)
           /\ \A k \in 1..Len(probe.first) :
                << "event", H.html, -1 >> \notin probe.first[k].email.carries

\* The ledger held an event of today that the portal no longer lists and
\* an expired one; the email was sent and ok() has run.
C10_Witness ==
  /\ probe.phase = "committed"
  /\ probe.cat = "events"
  /\ RemovedEntries # {}
  /\ \E H \in EventEntries(probe.cat, probe.before) : Expired(H, probe.now)


---------------------------------------------------------------------------
(* The substitution plan: all or nothing *)

\* The day is over: the time is past the beginning of the following day.
Past(day, now) == now >= getTime(day.dayOfMonth + 1)

\* The digests of the currently valid days of the page: not past, not empty.
ValidDays(days, now) ==
  { md5(days[k].html) :
      k \in { n \in 1..Len(days) : ~Past(days[n], now) /\ ~empty(days[n]) } }

\* The digests of the days readSubstitutions keeps.
KeptDays(days, now) == { md5(sub) : sub \in Range(scrapeSubstitutions(days, now)) }

\* The queue is all or nothing over the set units of digests, against the
\* seen-set ledger: no task when no unit is new, else one task whose email
\* carries every unit and marks exactly the new ones.
AllOrNothing(units, ledger, tasks) ==
  LET new == units \ DOMAIN ledger
  IN IF new = {} THEN tasks = << >>
     ELSE /\ Len(tasks) = 1
          /\ tasks[1].email.carries = { << "substitutions", h >> : h \in units }
          /\ tasks[1].email.updated = { << "substitutions", h >> : h \in new }

\* C11: readSubstitutions queues no task when no currently valid day (not
\* past, not empty) has a digest that is absent from the ledger, and
\* otherwise queues exactly one task whose email carries every currently
\* valid day, with exactly the days whose digest is new marked as updated.
C11_SubstitutionAllOrNothing ==
  (probe.phase = "diffed" /\ probe.cat = "substitutionsEP") =>
    AllOrNothing(ValidDays(probe.fresh, probe.now),
                 probe.before.hashes.substitutions, probe.first)

\* The same over the days that readSubstitutions keeps (its own test of
\* expiry): these are queued all or nothing.
C11_KeptDaysAllOrNothing ==
  (probe.phase = "diffed" /\ probe.cat = "substitutionsEP") =>
    AllOrNothing(KeptDays(probe.fresh, probe.now),
                 probe.before.hashes.substitutions, probe.first)



---------------------------------------------------------------------------
(* sendEmails: order and number of the delivery attempts *)

\* The rounds of the running pass are the first i tasks of the queue, in
\* queue order, one round per task.
RoundsFollowQueue ==
  /\ Len(pass) = i
  /\ \A k \in 1..Len(pass) : pass[k].task = INBOUND[k]

\* C12 as stated: whatever the options, sendEmails attempts the delivery of
\* the tasks of INBOUND in queue order, once each per pass.
C12_EachTaskAttemptedOnceInOrder ==
  pc = "sending" =>
    /\ RoundsFollowQueue
    /\ \A k \in 1..Len(pass) : pass[k].sent \in { "ok", "failed" }

\* C12: sendEmails goes through the tasks of INBOUND in queue order, one
\* round per task and pass; without the option mute a round is exactly one
\* delivery attempt, which is not repeated when it fails and after which
\* the loop goes on to the next task; with mute no delivery is attempted.
C12_OneRoundPerTaskInOrder ==
  pc = "sending" =>
    /\ RoundsFollowQueue
    /\ \A k \in 1..Len(pass) :
         IF cfg.mute THEN pass[k].sent = "none"
         ELSE pass[k].sent \in { "ok", "failed" }

\* A pass is through in which the send of a task failed and the delivery of
\* a later task of the queue was attempted.
C12_Witness ==
  /\ pc = "sending"
  /\ i = Len(INBOUND)
  /\ \E k \in 1..Len(pass) :
       /\ pass[k].sent = "failed"
       /\ \E n \in (k + 1)..Len(pass) : pass[n].task.kind # "summary"



---------------------------------------------------------------------------
(* sendEmails: the report of failed sends *)

\* The rounds of the pass in which the send of a task other than the report
\* failed.
FailedRounds ==
  { k \in 1..Len(pass) :
      pass[k].sent = "failed" /\ pass[k].task.kind # "summary" }

\* The rounds of the pass that handled the report of failed sends.
SummaryRounds == { k \in 1..Len(pass) : pass[k].task.kind = "summary" }

\* The loop of sendEmails is through: every task of the queue had its round.
PassThrough == pc = "sending" /\ i = Len(INBOUND)

---------------------------------------------------------------------------
(* sendEmails: a commit handler that throws *)

\* The last round of the pass is one whose ok() threw, and the loop of
\* sendEmails did not get past it.
AbortedByCommitHandler ==
  /\ Len(pass) = i + 1
  /\ pass[Len(pass)].okThrew

\* C14: a commit handler that throws after its send succeeded does not end
\* the pass or the iteration: sendEmails goes on with the remaining tasks
\* of the queue and the iteration reaches the write of the state file, so
\* main() is never left in failure by the exception of a commit handler.
C14_CommitFailureContained ==
  AbortedByCommitHandler => pc # "failed"



---------------------------------------------------------------------------
(* The two sources *)

\* main() has failed without sendEmails having handled the whole queue and
\* without a write of the state file in this iteration: the exception came
\* out of processElternPortal.
AbortedByElternPortal ==
  /\ pc = "failed"
  /\ ~AbortedByCommitHandler
  /\ writes = 0
  /\ ~cfg.test

\* C15: when the processing of one source throws in an iteration, the tasks
\* that the other source has already queued in it are still handled by
\* sendEmails in that iteration and the state file is written: the
\* iteration does not end in failure with letters of Schulmanager left in
\* the queue and the state file unwritten.
C15_SourceIsolation ==
  ~(AbortedByElternPortal /\ \E k \in 1..Len(INBOUND) : INBOUND[k].kind = "letter")



---------------------------------------------------------------------------
(* The write of the state file *)

\* The positions of an iteration up to the return of sendEmails.
BeforeWrite ==
  { "schulmanager", "send", "sending", "persist" } \cup EpSections

\* C16: the state file is written at most once per iteration, and only
\* after sendEmails has returned in normal mode: it is not written up to
\* the return of sendEmails, hence not in an iteration that throws before
\* or during sendEmails (an iteration that failed after a write failed by
\* the rethrow of the exception of Schulmanager), and never in test mode.
C16_StateFileWrittenOnceAfterSend ==
  /\ writes <= 1
  /\ pc \in BeforeWrite => writes = 0
  /\ (pc = "failed" /\ writes > 0) => schulmanagerException
  /\ cfg.test => (writes = 0 /\ ~stateFile.exists)

\* sendEmails has handled a queue in normal mode and returned, and the
\* state file has been written.
C16_Witness ==
  /\ pc = "close"
  /\ ~cfg.test
  /\ Len(pass) > 0
  /\ writes = 1
  /\ stateFile.exists



---------------------------------------------------------------------------
(* The queue at the start of an iteration *)

\* The portal items for which the queue holds more than one task.
QueuedTwice ==
  { item \in UNION { INBOUND[k].email.carries : k \in 1..Len(INBOUND) } :
      Cardinality({ k \in 1..Len(INBOUND) :
                      item \in INBOUND[k].email.carries }) > 1 }

\* C17: at the moment an iteration starts invoking the diff functions,
\* INBOUND holds no task of an earlier iteration (it is empty), also after
\* an iteration that ended with an exception; so when sendEmails starts, no
\* portal item has two tasks in the queue.
C17_QueueFreshEachIteration ==
  /\ pc = "schulmanager" => INBOUND = << >>
  /\ pc = "send" => QueuedTwice = {}



\* The reverse channel on its own: one call of processNewEmail and one of
\* sendMessagesToTeachers, in any interleaving of their steps.
InitMail ==
  /\ MainLoopAt("teachers")
  /\ probe = ProbeIdle
  /\ awake = "noop"
  /\ imap = [ connected |-> TRUE, events |-> 1 ]
  /\ RetryIdle
  /\ incomingEmail \in IncomingEmails
  /\ mailbox \in Mailboxes
  /\ OUTBOUND = << >>
  /\ poll = PollIdle
  /\ post = PostIdle

NextMail ==
  \/ PollBegin
  \/ PollMessage
  \/ PollEnd
  \/ PollThrows
  \/ PostBegin
  \/ PostStep
  \/ PostEnd

SpecMail == InitMail /\ [][NextMail]_vars



---------------------------------------------------------------------------
(* Incoming email: who may forward *)

\* The From header names a first address that, in lower case, is one of
\* allowForwardingFrom.
SenderAllowed(message) ==
  /\ Len(message.from) > 0
  /\ \E allowed \in incomingEmail.allowForwardingFrom :
       /\ allowed.local = message.from[1].local
       /\ ~allowed.upper

\* The recipients (To and Cc) that are the forwarding address with a tag.
MatchingRecipients(message) ==
  { k \in 1..Len(message.recipients) : message.recipients[k].forwarding }

\* The messages that the call of processNewEmail fetched.
Fetched == { poll.fetched[n] : n \in 1..Len(poll.fetched) }

\* The forwarding tasks that the call pushed for the message seq.
PushedFor(seq) == { k \in 1..Len(poll.pushed) : poll.pushed[k].seq = seq }

\* The admin alerts that the call pushed for the message seq.
AlertsFor(seq) == { k \in 1..Len(poll.alerts) : poll.alerts[k] = seq }

Ignored(seq) ==
  /\ seq \in poll.ignoredMessages
  /\ mailbox[seq].answered
  /\ PushedFor(seq) = {}
  /\ \/ ~incomingEmail.forwardingAddress
     \/ MatchingRecipients(mailbox[seq]) = {}
     \/ ~SenderAllowed(mailbox[seq])

\* The call left the message unflagged and pushed one forwarding task for
\* each of its matching recipients, in their order.
Dispatched(seq) ==
  /\ incomingEmail.forwardingAddress
  /\ SenderAllowed(mailbox[seq])
  /\ seq \notin poll.ignoredMessages
  /\ MatchingRecipients(mailbox[seq]) # {}
  /\ Cardinality(PushedFor(seq)) = Cardinality(MatchingRecipients(mailbox[seq]))
  /\ \E positions \in [ PushedFor(seq) -> MatchingRecipients(mailbox[seq]) ] :
       /\ \A a, b \in PushedFor(seq) :
            a < b => positions[a] < positions[b]
       /\ \A a \in PushedFor(seq) :
            poll.pushed[a].teacherId = mailbox[seq].recipients[positions[a]].tag

\* C19: when a call of processNewEmail has completed, every message it
\* fetched is in exactly one of two conditions: it was flagged \Answered by
\* the call and produced no forwarding task (no forwarding address, no
\* matching recipient, or sender rejected), or it is authorized, was left
\* unflagged by the call and produced exactly one forwarding task per
\* matching recipient.
C19_IgnoredOrDispatched ==
  poll.phase = "done" =>
    \A seq \in Fetched : Ignored(seq) # Dispatched(seq)

\* A completed call that fetched one message it ignored and one message for
\* which it pushed two forwarding tasks, or two messages of which one was
\* ignored and one dispatched.
C19_Witness ==
  /\ poll.phase = "done"
  /\ \E seq \in Fetched : Ignored(seq)
  /\ \E seq \in Fetched : Dispatched(seq)

---------------------------------------------------------------------------
(* Messages to teachers: markDone *)

\* The operations on the page logged so far for the message at position m
\* of the copy of the queue.
OperationsOf(m) == { n \in 1..Len(post.log) : post.log[n].msg = m }

\* C20: for every forwarding task that sendMessagesToTeachers processes,
\* every submit click is preceded by a successful markDone of the task,
\* which is itself preceded by the typing of the first chunk (so the source
\* email is flagged when the first chunk is submitted); markDone is called
\* once per task; if markDone fails, no chunk of the task is submitted.
C20_MarkDoneBeforeFirstSubmit ==
  \A n \in 1..Len(post.log) :
    LET e == post.log[n]
        mine == OperationsOf(e.msg)
    IN /\ e.op = "click" =>
            /\ \E a \in mine :
                 /\ a < n
                 /\ post.log[a].op = "markDone" /\ post.log[a].ok
                 /\ \E t \in mine :
                      /\ t < a
                      /\ post.log[t].op = "type" /\ post.log[t].ok
                      /\ post.log[t].part = 0
            /\ mailbox[e.seq].answered
       /\ e.op = "markDone" =>
            /\ e.part = 0
            /\ \A a \in mine : post.log[a].op = "markDone" => a = n
            /\ ~e.ok => \A c \in mine : post.log[c].op # "click"

\* A task of two chunks was posted in full (markDone before the first
\* click), and the markDone of another task failed.
C20_Witness ==
  /\ post.phase = "done"
  /\ \E n \in 1..Len(post.log) :
       /\ post.log[n].op = "click" /\ post.log[n].part = 1 /\ post.log[n].ok
  /\ \E n \in 1..Len(post.log) :
       /\ post.log[n].op = "markDone" /\ ~post.log[n].ok


---------------------------------------------------------------------------
(* Messages to teachers: the order of the chunks and their thread *)

\* The submit clicks logged for the message at position m of the copy of
\* the queue, in their order.
ClicksOf(m) ==
  SelectSeq(post.log, LAMBDA e : e.msg = m /\ e.op = "click")

\* C25: the chunks of a forwarding task are submitted in the order 1..N,
\* each at most once; for a task that opens a new thread, the chunks 2..N
\* are posted as replies in the thread whose id was read from the response
\* to chunk 1; when an operation of the task fails (the submit of chunk k
\* in particular), nothing of the task is done after it: no later chunk is
\* submitted and chunk k is not submitted again.
C25_ChunksInOrderInThread ==
  /\ \A m \in 1..Len(post.outboundTmp) :
       LET clicks == ClicksOf(m)
       IN /\ \A k \in 1..Len(clicks) : clicks[k].part = k - 1
          /\ \A k \in 2..Len(clicks) :
               clicks[1].thread = NoThread =>
                 /\ clicks[k].thread = NewThreadId
                 /\ \E n \in OperationsOf(m) :
                      post.log[n].op = "eval" /\ post.log[n].ok
          /\ \A k \in 2..Len(clicks) :
               clicks[1].thread # NoThread =>
                 clicks[k].thread = clicks[1].thread
  /\ \A n \in 1..Len(post.log) :
       ~post.log[n].ok =>
         \A later \in OperationsOf(post.log[n].msg) : later <= n

\* A task of two chunks that opened a new thread was posted in full, the
\* second chunk in the new thread, and the submit of the first chunk of
\* another task of two chunks failed.
C25_Witness ==
  /\ post.phase = "done"
  /\ \E n \in 1..Len(post.log) :
       /\ post.log[n].op = "click" /\ post.log[n].ok
       /\ post.log[n].part = 1 /\ post.log[n].thread = NewThreadId
  /\ \E n \in 1..Len(post.log) :
       /\ post.log[n].op = "click" /\ ~post.log[n].ok
       /\ post.log[n].part = 0 /\ post.log[n].typed.prefix # NoPrefix

---------------------------------------------------------------------------
(* Messages to teachers: the chunks of a long text *)

\* The lengths of the text: up to the size limit, and what makes 2, 3, 10,
\* 99 and 100 chunks.
LongCapacity == ChunkSize - PrefixSize
SplitLengths ==
  { 1, ChunkSize, ChunkSize + 1, 2 * LongCapacity, 2 * LongCapacity + 1,
    9 * LongCapacity + 1, 99 * LongCapacity, 99 * LongCapacity + 1 }

\* An email of a parent to teacher 7, new or in reply to thread 11.
SplitMessages ==
  [ from : { << Sender("parent", FALSE) >> },
    recipients : { << TaggedAddress(7) >> },
    inReplyTo : InReplyTos, length : SplitLengths, answered : { FALSE } ]

\* sendMessagesToTeachers on its own: processNewEmail has pushed the task
\* of one email, and processElternPortal is about to call
\* sendMessagesToTeachers.
InitSplit ==
  /\ MainLoopAt("teachers")
  /\ probe = ProbeIdle
  /\ awake = "noop"
  /\ imap = [ connected |-> TRUE, events |-> 0 ]
  /\ RetryIdle
  /\ incomingEmail \in { e \in IncomingEmails : e.forwardingAddress }
  /\ \E message \in SplitMessages :
       /\ mailbox = << message >>
       /\ OUTBOUND = ForwardingTasks(1, message)
       /\ poll = [ PollIdle EXCEPT !.phase = "done", !.fetched = << 1 >>,
                                   !.next = 2, !.numNewMessages = 1,
                                   !.pushed = ForwardingTasks(1, message) ]
  /\ post = PostIdle

NextSplit ==
  \/ PostBegin
  \/ PostStep
  \/ PostEnd

SpecSplit == InitSplit /\ [][NextSplit]_vars

CeilDiv(a, b) == (a + b - 1) \div b

\* The chunks submitted for the message at position m, in their order.
SubmittedOf(m) ==
  SelectSeq(post.log, LAMBDA e : e.msg = m /\ e.op = "click" /\ e.ok)

\* The tasks of the copy of the queue that were posted in full.
PostedInFull ==
  { m \in 1..Len(post.outboundTmp) :
      /\ (m < post.msg \/ post.phase = "done")
      /\ \A n \in OperationsOf(m) : post.log[n].ok }

\* C24: a text of length L is posted, with the size limit M = 512, as one
\* chunk without prefix that is the text when L <= M, and otherwise as
\* N = ceil(L / (M - 8)) chunks, chunk n being the prefix "[n/N] " and the
\* n-th consecutive slice of the text; the slices in order make up the
\* text, and every posted chunk with its prefix is at most M long.
C24_ChunksCoverTextWithinLimit ==
  /\ \A n \in 1..Len(post.log) :
       LET e == post.log[n]
           L == post.outboundTmp[e.msg].length
           N == CeilDiv(L, ChunkSize - 8)
       IN (e.op = "click" /\ e.ok) =>
            /\ L <= ChunkSize =>
                 /\ e.part = 0
                 /\ e.typed.prefix = NoPrefix
                 /\ e.typed.slice = [ first |-> 0, last |-> L ]
            /\ L > ChunkSize =>
                 /\ e.part < N
                 /\ e.typed.prefix = << e.part + 1, N >>
                 /\ e.typed.slice.first = e.part * (ChunkSize - 8)
                 /\ e.typed.slice.last =
                      Min((e.part + 1) * (ChunkSize - 8), L)
            /\ chunkLength(e.typed) <= ChunkSize
  /\ \A m \in PostedInFull :
       LET chunks == SubmittedOf(m)
           L == post.outboundTmp[m].length
       IN /\ chunks # << >>
          /\ chunks[1].typed.slice.first = 0
          /\ chunks[Len(chunks)].typed.slice.last = L
          /\ \A k \in 2..Len(chunks) :
               chunks[k].typed.slice.first = chunks[k - 1].typed.slice.last

---------------------------------------------------------------------------
(* The main loop with incoming email: the program as a whole *)

\* main.js:1048: main() is called; incoming email is enabled, the portal
\* shows nothing yet and the inbox is empty.
InitLoop ==
  /\ MainLoopAt("main")
  /\ probe = ProbeIdle
  /\ incomingEmail = [ enabled |-> TRUE, forwardingAddress |-> TRUE,
                       allowForwardingFrom |-> { Sender("parent", FALSE) } ]
  /\ mailbox = << >>
  /\ OUTBOUND = << >>
  /\ poll = PollIdle
  /\ post = PostIdle
  /\ awake = "noop"
  /\ imap = NoImapClient
  /\ RetryIdle

NextLoop ==
  \/ CreateImapClient
  \/ ReadState
  \/ ProcessSchulmanager
  \/ SchulmanagerThrows
  \/ PostBegin
  \/ PostStep
  \/ PostEnd
  \/ Announcements
  \/ Inquiries
  \/ Threads
  \/ Substitutions
  \/ NoticeBoard
  \/ Events
  \/ ElternPortalThrows
  \/ BeginSend
  \/ SendStep
  \/ EndSend
  \/ Persist
  \/ Close
  \/ CheckImapConnectionThrows
  \/ Wait
  \/ Awakened
  \/ Retry
  \/ Tick
  \/ Arrive
  \/ Publish
  \/ PollBegin
  \/ PollMessage
  \/ PollEnd
  \/ PollThrows

SpecLoop == InitLoop /\ [][NextLoop]_vars

---------------------------------------------------------------------------
(* Duplicate messages to teachers *)

\* The first chunks submitted to the portal so far for the email seq and
\* the teacher.
FirstSubmits(seq, teacherId) ==
  { n \in 1..Len(post.log) :
      /\ post.log[n].op = "click" /\ post.log[n].ok /\ post.log[n].part = 0
      /\ post.log[n].seq = seq /\ post.log[n].teacherId = teacherId }

\* The tasks pending in OUTBOUND for the email seq and the teacher.
Pending(seq, teacherId) ==
  { k \in 1..Len(OUTBOUND) :
      OUTBOUND[k].seq = seq /\ OUTBOUND[k].teacherId = teacherId }

\* C22: under every interleaving of the polls (events mailboxOpen and
\* exists, a new IMAP client after an error) with the iterations of the
\* main loop, each pair of an inbound email and a matching recipient has at
\* most one forwarding task pending in OUTBOUND, and its first chunk is
\* submitted to the portal at most once.
C22_NoDuplicateToTeacher ==
  \A seq \in 1..Len(mailbox), teacherId \in TeacherIds :
    /\ Cardinality(Pending(seq, teacherId)) <= 1
    /\ Cardinality(FirstSubmits(seq, teacherId)) <= 1

---------------------------------------------------------------------------
(* A forwarding task that fails before markDone *)

\* The operations logged for the tasks of the email seq for the teacher.
LoggedFor(seq, teacherId) ==
  { n \in 1..Len(post.log) :
      post.log[n].seq = seq /\ post.log[n].teacherId = teacherId }

\* The tasks of the email for the teacher that sendMessagesToTeachers has
\* taken and not begun.
Waiting(seq, teacherId) ==
  { k \in 1..Len(post.outboundTmp) :
      /\ post.phase = "posting" /\ k >= post.msg
      /\ post.outboundTmp[k].seq = seq
      /\ post.outboundTmp[k].teacherId = teacherId }

\* The last task of the email for the teacher failed before markDone was
\* reached (in the navigation or the typing of the first part), and no
\* other task of the email for the teacher is queued.
FailedBeforeMarkDone(seq, teacherId) ==
  /\ LoggedFor(seq, teacherId) # {}
  /\ LET e == post.log[CHOOSE n \in LoggedFor(seq, teacherId) :
                         \A o \in LoggedFor(seq, teacherId) : o <= n]
     IN ~e.ok /\ e.part = 0 /\ e.op \in { "goto", "type" }
  /\ Pending(seq, teacherId) = {}
  /\ Waiting(seq, teacherId) = {}

\* A call of processNewEmail begins and fetches.
FetchBegins == poll.phase # "fetching" /\ poll'.phase = "fetching"

\* A call of processNewEmail handles the fetched message seq.
Handles(seq) ==
  /\ poll.phase = "fetching" /\ poll'.phase = "fetching"
  /\ poll'.next = poll.next + 1
  /\ poll.fetched[poll.next] = seq

\* C21: when the processing of a forwarding task fails before markDone is
\* reached, the source email stays unflagged, and the next call of
\* processNewEmail fetches it and pushes a forwarding task for the same
\* teacher again.
C21_FailedTaskFetchedAgain ==
  [][ \A seq \in 1..Len(mailbox), teacherId \in TeacherIds :
        FailedBeforeMarkDone(seq, teacherId) =>
          /\ ~mailbox[seq].answered
          /\ FetchBegins => seq \in Range(poll'.fetched)
          /\ Handles(seq) =>
               \E k \in (Len(OUTBOUND) + 1)..Len(OUTBOUND') :
                 OUTBOUND'[k].seq = seq /\ OUTBOUND'[k].teacherId = teacherId
    ]_vars

\* No task of the email for another teacher, and no second task for the
\* same teacher, has flagged the email.
NoOtherMarkDone(seq, teacherId) ==
  \A n \in 1..Len(post.log) :
    (post.log[n].seq = seq /\ post.log[n].op = "markDone") => ~post.log[n].ok

\* What holds of a failed task whose email no other task has flagged.
FailedTaskAloneFetchedAgain ==
  [][ \A seq \in 1..Len(mailbox), teacherId \in TeacherIds :
        (FailedBeforeMarkDone(seq, teacherId) /\ NoOtherMarkDone(seq, teacherId)) =>
          /\ ~mailbox[seq].answered
          /\ FetchBegins => seq \in Range(poll'.fetched)
          /\ Handles(seq) =>
               \E k \in (Len(OUTBOUND) + 1)..Len(OUTBOUND') :
                 OUTBOUND'[k].seq = seq /\ OUTBOUND'[k].teacherId = teacherId
    ]_vars

---------------------------------------------------------------------------
(* The queue of the messages to teachers *)

\* The number of tasks that sendMessagesToTeachers has begun to process:
\* every task begins with the navigation for its first part.
Begun ==
  Cardinality({ n \in 1..Len(post.log) :
                  /\ post.log[n].part = 0
                  /\ post.log[n].op = "goto" })

\* The tasks taken by the calls of sendMessagesToTeachers before the
\* running one (by all calls, when none is running).
TakenBefore ==
  IF post.phase = "posting" THEN Len(post.taken) - Len(post.outboundTmp)
  ELSE Len(post.taken)

\* The tasks pushed so far are those taken by the calls of
\* sendMessagesToTeachers, followed by those in OUTBOUND, each once and in
\* the order of the pushes; the tasks taken by a call that has ended were
\* all processed, those of the running call up to its position.
TakenOnce ==
  /\ poll.pushed = post.taken \o OUTBOUND
  /\ post.phase # "posting" => Begun = Len(post.taken)
  /\ post.phase = "posting" =>
       /\ SubSeq(post.taken, TakenBefore + 1, Len(post.taken))
            = post.outboundTmp
       /\ Begun \in { TakenBefore + post.msg - 1, TakenBefore + post.msg }
       /\ Begun <= Len(post.taken)

\* A call of sendMessagesToTeachers takes its copy of the queue.
Takes == Len(post'.taken) > Len(post.taken)

\* C23: copying and clearing OUTBOUND loses and duplicates nothing: every
\* task that processNewEmail appends to OUTBOUND, at any interleaving with
\* sendMessagesToTeachers, is processed by exactly one call of
\* sendMessagesToTeachers; a task appended while a call is running stays
\* in OUTBOUND and is taken by the next call, which takes all of OUTBOUND.
C23_EveryTaskTakenOnce ==
  [][ /\ TakenOnce'
      /\ Takes => (post'.outboundTmp = OUTBOUND /\ OUTBOUND' = << >>)
      /\ (post.phase = "posting" /\ post'.phase = "posting") =>
           (post'.taken = post.taken /\ Len(OUTBOUND') >= Len(OUTBOUND))
    ]_vars

\* A call of sendMessagesToTeachers that is not the first has begun the
\* tasks of its copy, and processNewEmail has appended a task meanwhile,
\* which waits in OUTBOUND for the next call.
C23_Witness ==
  /\ post.phase = "posting"
  /\ TakenBefore > 0
  /\ OUTBOUND # << >>
  /\ Begun > TakenBefore

---------------------------------------------------------------------------
(* The retry loop on its own: the IMAP server cannot be reached *)

InitRetry ==
  /\ MainLoopAt("main")
  /\ probe = ProbeIdle
  /\ incomingEmail = [ enabled |-> TRUE, forwardingAddress |-> TRUE,
                       allowForwardingFrom |-> { Sender("parent", FALSE) } ]
  /\ mailbox = << >>
  /\ OUTBOUND = << >>
  /\ poll = PollIdle
  /\ post = PostIdle
  /\ awake = "noop"
  /\ imap = NoImapClient
  /\ RetryIdle

NextRetry ==
  \/ CreateImapClientThrows
  \/ Retry

SpecRetry == InitRetry /\ [][NextRetry]_vars

\* The time since the failure before this one, in milliseconds.
SinceLastFailure == DateNow - LAST_FAILURE_EPOCH_MILLIS

\* The retry loop computes the wait for the failure of main().
HandlesFailure == pc = "failed" /\ pc' # "failed"

---------------------------------------------------------------------------
(* The option once *)

\* main() is called again, or the loop of main() goes round again.
StartsIteration == pc # "start" /\ pc' = "start"

\* C30: with the option once, the program runs one iteration of the main
\* loop and then terminates, whatever happens in the iteration: no second
\* iteration is started, neither by the loop nor by the retry after an
\* exception of Schulmanager or Eltern-Portal.
C30_OnceRunsOneIteration ==
  [][ cfg.once => ~StartsIteration ]_vars

---------------------------------------------------------------------------
(* One iteration at a time *)

\* The positions at which no iteration of the main loop is running: main()
\* has not reached the loop, waits between two iterations, or has thrown.
Between == { "main", "wait", "failed", "exit" }

\* C26: at most one iteration of the main loop runs at any moment: an
\* iteration starts only when none is running, and neither awake(), called
\* by an IMAP handler, nor the retry loop starts one while an iteration is
\* in progress; the call of processNewEmail that ends with awake() leaves
\* the main loop where it is.
C26_SingleFlight ==
  [][ /\ StartsIteration => pc \in Between
      /\ (poll.phase = "fetching" /\ poll'.phase = "done") => pc' = pc
    ]_vars

\* awake() was called by processNewEmail while an iteration was running.
C26_Witness ==
  /\ pc \in EpSections
  /\ poll.phase = "done" /\ poll.numNewMessages > 0
  /\ awake = "resolved"

---------------------------------------------------------------------------
(* The wait between two iterations and the queue of messages to teachers *)

\* The loop enters the wait phase.
EntersWait == pc = "close" /\ pc' = "wait"

\* The wait phase was ended: the promise is resolved, the loop has not gone
\* on yet.
WaitEnded == pc = "wait" /\ awake = "resolved"

\* processElternPortal is about to call sendMessagesToTeachers (or is
\* logging in) while tasks are queued, and does its next step.
LeavesLogin ==
  /\ pc = "teachers" /\ post.phase # "posting" /\ OUTBOUND # << >>
  /\ (pc' # pc \/ post' # post)

\* The step is the copy of the whole queue by sendMessagesToTeachers.
TakesAll == post'.phase = "posting" /\ post'.outboundTmp = OUTBOUND

\* C27 as stated: when OUTBOUND is not empty as the loop enters the wait
\* phase, the wait ends at once and the next iteration starts without the
\* timer or a wake signal; and the iteration that follows takes every task
\* queued by then.
C27_QueuedTasksTakenByNextIteration ==
  [][ /\ (EntersWait /\ OUTBOUND # << >>) => awake' = "resolved"
      /\ WaitEnded => (clock' = clock /\ pc' \in { "wait", "start" })
      /\ LeavesLogin => TakesAll ]_vars

\* C27, amended: the same, unless the iteration that follows throws before
\* it calls sendMessagesToTeachers (the login to the portal fails): then
\* the tasks stay in OUTBOUND.
C27_QueuedTasksTakenUnlessLoginThrows ==
  [][ /\ (EntersWait /\ OUTBOUND # << >>) => awake' = "resolved"
      /\ WaitEnded => (clock' = clock /\ pc' \in { "wait", "start" })
      /\ LeavesLogin =>
           \/ TakesAll
           \/ pc' = "failed" /\ OUTBOUND' = OUTBOUND ]_vars

\* The loop is in a wait phase that was ended at once because of a task in
\* OUTBOUND: no call of processNewEmail has ended yet, so awake() was
\* never called.
C27_Witness ==
  /\ WaitEnded
  /\ OUTBOUND # << >>
  /\ thrown = 0
  /\ poll.phase = "fetching" /\ imap.events = Len(mailbox)

---------------------------------------------------------------------------
(* The wake signal of a new email *)

\* The positions in the inbox of the notifications of the portal, in the
\* order of their arrival: the k-th of them announces announcement k.
Notifications ==
  SelectSeq([ k \in 1..Len(mailbox) |-> k ],
            LAMBDA k : mailbox[k].recipients = << OtherAddress >>)

\* The announcements whose notification a call of processNewEmail has
\* handled to its end: it flagged the email and called awake().
Signalled ==
  { id \in 1..Len(Notifications) : mailbox[Notifications[id]].answered }

\* An iteration has scraped the announcement: its email is queued, or was
\* handed to sendEmails in the last pass or before.
Scraped(id) ==
  \/ Queued(<< "announcement", id >>)
  \/ << "announcement", id >> \in delivered
  \/ \E k \in 1..Len(pass) :
       << "announcement", id >> \in pass[k].task.email.carries

\* The timer of the wait phase fires: the whole check interval has passed.
TimerFires == pc = "wait" /\ awake = "pending" /\ pc' = "start"

\* C28: the wake signal of a new email is never lost: when awake() is
\* called while an iteration is running, the content that the email
\* announces is scraped by the rest of that iteration, or the call ends the
\* following wait phase early; the content is never left unscraped until
\* the whole check interval has passed.
C28_WakeSignalNeverLost ==
  [][ TimerFires => \A id \in Signalled : Scraped(id) ]_vars

---------------------------------------------------------------------------
(* The option mute *)

\* sendEmails is left by its last statement (main.js:721).
PassEnds == pc = "sending" /\ pc' \in { "persist", "close" }

\* Every task of the queue went through the loop, and its ok() was called.
AllCommitted ==
  /\ Len(pass) = Len(INBOUND)
  /\ \A k \in 1..Len(pass) : pass[k].task = INBOUND[k] /\ pass[k].okInvoked

\* The items that the tasks of the pass carry (of an event email the new
\* events) are recorded as sent in state.json.
PassPersisted ==
  /\ stateFile'.exists
  /\ stateFile'.content = state'
  /\ \A k \in 1..Len(pass) : ItemsOfEntry(k) \subseteq Marked(stateFile'.content)

\* The two queues hold tasks for the same items in the same order.
SameTasks(queue, other) ==
  /\ Len(queue) = Len(other)
  /\ \A k \in 1..Len(queue) :
       /\ queue[k].kind = other[k].kind
       /\ queue[k].email.carries = other[k].email.carries

---------------------------------------------------------------------------
(* The option test *)

\* The rounds of the pass in which transport.sendMail was called.
Attempts == { k \in 1..Len(pass) : pass[k].sent # "none" }

---------------------------------------------------------------------------
(* readState *)

\* The ledger has no entry: every object of EMPTY_STATE is empty, the digest
\* of the plan is the empty string and the watermark is 0.
IsEmptyLedger(st) ==
  /\ st.ep.lastSuccessfulRun = 0
  /\ DOMAIN st.ep.threads = {}
  /\ DOMAIN st.ep.announcements = {}
  /\ DOMAIN st.ep.inquiries = {}
  /\ DOMAIN st.ep.events = {}
  /\ st.ep.hashes.subs = NoHash
  /\ DOMAIN st.ep.hashes.notices = {}
  /\ DOMAIN st.sm.letters = {}

\* C33 as stated: in every iteration readState returns the content of the
\* state file where there is one, and the empty ledger (every seen-set
\* empty, watermark 0) where there is none, also after iterations of the
\* same process that ran commits and did not write the file.
C33_ReadStateEmptyWithoutFile ==
  [][ (pc = "start" /\ pc' = "schulmanager") =>
        IF stateFile.exists THEN state' = stateFile.content
        ELSE IsEmptyLedger(state')
    ]_vars

---------------------------------------------------------------------------
(* Events are announced once *)

\* The round that sendEmails has just made delivered an event email.
DeliversEventEmail ==
  /\ pc = "sending"
  /\ Len(pass') = Len(pass) + 1
  /\ pass'[Len(pass')].sent = "ok"
  /\ pass'[Len(pass')].task.kind = "event"

\* The events a task's email lists with the status new.
ListedNew(t) == { it \in t.email.carries : it[3] = 1 }

\* C34 as stated. The portal of this specification never changes, and an
\* event that is inside the lookahead window at two times is inside it in
\* between; so: no delivered event email lists as new an event that an
\* earlier delivered email listed as new, and readEvents queues an email
\* only if it lists a new or a removed event.
C34_EventNotifiedOnce ==
  [][ /\ DeliversEventEmail =>
           ListedNew(pass'[Len(pass')].task) \cap delivered = {}
      /\ (pc = "events" /\ Len(INBOUND') > Len(INBOUND)) =>
           \E it \in INBOUND'[Len(INBOUND')].email.carries : it[3] \in {1, -1}
    ]_vars

---------------------------------------------------------------------------
(* The retry wait under a permanent error *)

\* C35 as stated, for runs in which every call of main() fails: the wait
\* is doubled from failure to failure up to MAX_RETRY_WAIT_SECONDS, and once
\* it is MAX_RETRY_WAIT_SECONDS it stays there at every later failure.
C35_WaitStaysAtMax ==
  [][ HandlesFailure =>
        /\ RETRY_WAIT_SECONDS < MAX_RETRY_WAIT_SECONDS =>
             RETRY_WAIT_SECONDS' \in { DEFAULT_RETRY_WAIT_SECONDS,
                                       Min(2 * RETRY_WAIT_SECONDS,
                                           MAX_RETRY_WAIT_SECONDS) }
        /\ RETRY_WAIT_SECONDS = MAX_RETRY_WAIT_SECONDS =>
             RETRY_WAIT_SECONDS' = MAX_RETRY_WAIT_SECONDS
    ]_vars

---------------------------------------------------------------------------
(* sendEmails on its own, while processNewEmail may run *)

\* An email of a sender that may not forward, addressed to teacher 7:
\* processNewEmail pushes an admin email onto INBOUND (main.js:842-855).
RejectedMessage ==
  [ from |-> << Sender("stranger", FALSE) >>,
    recipients |-> << TaggedAddress(7) >>, inReplyTo |-> NoReply,
    length |-> 1, answered |-> FALSE ]

\* main() is about to call sendEmails (main.js:1128) with the tasks of the
\* announcements in the queue; the IMAP client has an event to handle.
InitSend ==
  /\ cfg \in [ mute : BOOLEAN, test : BOOLEAN, once : { FALSE } ]
  /\ portal \in { [ announcements |-> Descending(n), inquiries |-> << >>,
                    teachers |-> << >>, substitutions |-> 1,
                    notices |-> << >>, events |-> << >>,
                    letters |-> << >> ] : n \in 0..MaxItems }
  /\ clock = StartTick
  /\ NOW = StartTick
  /\ stateFile = NoFile
  /\ EMPTY_STATE = EmptyState
  /\ state = EmptyState
  /\ aliased = TRUE
  /\ INBOUND = buildEmailsForAnnouncements(portal.announcements,
                                           state.ep.announcements)
  /\ pc = "send"
  /\ i = 0
  /\ errors = 0
  /\ schulmanagerException = FALSE
  /\ thrown = 0
  /\ failures = 0
  /\ pass = << >>
  /\ delivered = {}
  /\ writes = 0
  /\ probe = ProbeSendEmails
  /\ incomingEmail = [ enabled |-> TRUE, forwardingAddress |-> TRUE,
                       allowForwardingFrom |-> { Sender("parent", FALSE) } ]
  /\ mailbox \in SeqsUpTo({ RejectedMessage }, MaxArrivals)
  /\ OUTBOUND = << >>
  /\ poll = PollIdle
  /\ post = PostIdle
  /\ awake = "noop"
  /\ imap = [ connected |-> TRUE, events |-> 1 ]
  /\ RetryIdle

NextSend ==
  \/ BeginSend
  \/ SendStep
  \/ EndSend
  \/ PollBegin
  \/ PollMessage
  \/ PollEnd

\* The callback of transport.sendMail is called, the timer of sleepSeconds
\* fires and a commit handler returns or throws: every round of the loop
\* comes to its end.
SpecSend ==
  /\ InitSend
  /\ [][NextSend]_vars
  /\ WF_vars(BeginSend)
  /\ WF_vars(SendStep)
  /\ WF_vars(EndSend)

\* The positions of the summary-error tasks in a queue.
Summaries(queue) == { k \in 1..Len(queue) : queue[k].kind = "summary" }

\* sendEmails returns (main.js:665 or main.js:721).
Returns == pc \in { "send", "sending" } /\ pc' \in { "persist", "close" }

\* sendEmails is over: it has returned, or a commit handler threw.
SendEmailsOver == pc \in { "persist", "close", "failed" }

\* The loop has made the round of the summary task, whose send failed.
SummaryFailed ==
  /\ pc = "sending"
  /\ Len(pass') = Len(pass) + 1
  /\ pass'[Len(pass')].task.kind = "summary"
  /\ pass'[Len(pass')].sent = "failed"

---------------------------------------------------------------------------
(* The main loop while a Schulmanager letter arrives *)

\* schulmanager.js:123-180 and schulmanager.js:39-46: a letter arrives
\* while readLetters retrieves the unsent letters. allLetters was scraped
\* and the ledger pruned before; the row at the remembered index now has
\* another id, readLetters returns undefined (schulmanager.js:177-180) and
\* buildEmailsForLetters iterates over it (schulmanager.js:252), which
\* throws a TypeError. main() keeps the exception (main.js:1114).
LettersChangeWhileRead ==
  /\ pc = "schulmanager"
  /\ thrown + failures < MaxFaults
  /\ Len(portal.letters) < MaxItems
  /\ LET kept == pruneLetters(portal.letters, state.sm.letters)
     IN /\ readLetters(portal.letters, kept) # << >>
        /\ Mutate([state EXCEPT !.sm.letters = kept])
  /\ portal' = [ portal EXCEPT !.letters = Descending(Len(@) + 1) ]
  /\ thrown' = thrown + 1
  /\ schulmanagerException' = TRUE
  /\ pc' = "teachers"
  /\ UNCHANGED << cfg, clock, NOW, stateFile, aliased, INBOUND, i, errors,
                  failures, pass, delivered, writes, probe, mailVars,
                  awake, imap, retryVars >>

\* Only Schulmanager has content.
InitLetters ==
  /\ cfg \in Configs
  /\ portal \in { [ announcements |-> << >>, inquiries |-> << >>,
                    teachers |-> << >>, substitutions |-> 1,
                    notices |-> << >>, events |-> << >>,
                    letters |-> Descending(n) ] : n \in 0..MaxItems }
  /\ clock = StartTick
  /\ NOW = 0
  /\ stateFile = NoFile
  /\ EMPTY_STATE = EmptyState
  /\ state = EmptyState
  /\ aliased = TRUE
  /\ INBOUND = << >>
  /\ pc = "start"
  /\ i = 0
  /\ errors = 0
  /\ schulmanagerException = FALSE
  /\ thrown = 0
  /\ failures = 0
  /\ pass = << >>
  /\ delivered = {}
  /\ writes = 0
  /\ probe = ProbeIdle
  /\ MailIdle

NextLetters ==
  \/ ReadState
  \/ ProcessSchulmanager
  \/ SchulmanagerThrows
  \/ LettersChangeWhileRead
  \/ PostBegin
  \/ Announcements
  \/ Inquiries
  \/ Threads
  \/ Substitutions
  \/ NoticeBoard
  \/ Events
  \/ ElternPortalThrows
  \/ BeginSend
  \/ SendStep
  \/ EndSend
  \/ Persist
  \/ Close
  \/ Wait
  \/ Retry
  \/ Tick

SpecLetters == InitLetters /\ [][NextLetters]_vars

\* Schulmanager.process() is over.
ProcessOver == pc = "schulmanager" /\ pc' = "teachers"

\* The list of the letters changed while it was read.
ListChanged == portal'.letters # portal.letters

\* C37 as stated: when the list of letters changes while the letters are
\* read, process() ends without an exception and without a letter task,
\* and a later process() that reads an unchanged list queues every letter
\* that the ledger does not record as sent.
C37_ChangedListBailsOutQuietly ==
  [][ ProcessOver =>
        /\ ListChanged =>
             /\ ~schulmanagerException'
             /\ thrown' = thrown
             /\ INBOUND' = INBOUND
        /\ (~ListChanged /\ ~schulmanagerException') =>
             \A id \in Range(portal.letters) :
               ~Truthy(state'.sm.letters, id) =>
                 \E k \in 1..Len(INBOUND') :
                   << "letter", id >> \in INBOUND'[k].email.carries
    ]_vars

---------------------------------------------------------------------------
(* A forwarding task that fails *)

\* The operations of task m that threw.
FailedOps(m) == { n \in OperationsOf(m) : ~post.log[n].ok }

\* The admin emails that sendMessagesToTeachers has pushed (main.js:990).
TeacherAlerts == SelectSeq(INBOUND, LAMBDA t : t.kind = "teacherError")

\* Every part of task m was submitted.
RanToEnd(m) ==
  \E n \in OperationsOf(m) :
    /\ post.log[n].op = "click"
    /\ post.log[n].ok
    /\ post.log[n].part + 1 = numParts(post.outboundTmp[m].length)

\* One admin email per failed operation, at most one failed operation per
\* task, no failed task in OUTBOUND, and at the end of the call every task
\* of the copy has failed or was posted in full.
FailuresContained ==
  /\ \A m \in 1..Len(post.outboundTmp) : Cardinality(FailedOps(m)) <= 1
  /\ Len(TeacherAlerts)
       = Cardinality({ n \in 1..Len(post.log) : ~post.log[n].ok })
  /\ \A m \in 1..Len(post.outboundTmp) :
       FailedOps(m) # {} =>
         \A k \in 1..Len(OUTBOUND) : OUTBOUND[k].seq # post.outboundTmp[m].seq
  /\ post.phase = "done" =>
       \A m \in 1..Len(post.outboundTmp) : FailedOps(m) # {} \/ RanToEnd(m)

\* An operation of the task at hand has thrown.
TaskFails == post'.faults = post.faults + 1

\* C38: when an operation of a forwarding task throws (navigation, typing,
\* markDone, submit or a response that is not OK, reading the new thread's
\* id), sendMessagesToTeachers pushes exactly one admin email onto INBOUND,
\* leaves OUTBOUND as it is, and goes on with the next task of its copy:
\* at the end of the call every task has failed once or was posted in full,
\* and no failed task is in OUTBOUND.
C38_FailedTaskAlertedOnceOthersProcessed ==
  [][ /\ FailuresContained'
      /\ TaskFails =>
           /\ INBOUND' = Append(INBOUND, AdminTask("teacherError"))
           /\ OUTBOUND' = OUTBOUND
           /\ post'.msg = post.msg + 1
           /\ post'.outboundTmp = post.outboundTmp
    ]_vars

\* The submit of the first of two tasks got a response that is not OK;
\* one admin email was pushed, the second task was posted in full, and
\* OUTBOUND is empty.
C38_Witness ==
  /\ post.phase = "done"
  /\ Len(post.outboundTmp) = 2
  /\ \E n \in FailedOps(1) : post.log[n].op = "click"
  /\ RanToEnd(2)
  /\ Len(TeacherAlerts) = 1
  /\ OUTBOUND = << >>

---------------------------------------------------------------------------
(* The ledger of the notice board *)

\* Only the notice board has content, and an earlier run of the program
\* may have left a state file whose notice ledger it wrote when the board
\* showed other items.
InitNotices ==
  /\ cfg \in Configs
  /\ portal \in { [ announcements |-> << >>, inquiries |-> << >>,
                    teachers |-> << >>, substitutions |-> 1,
                    notices |-> Descending(n), events |-> << >>,
                    letters |-> << >> ] : n \in 0..MaxItems }
  /\ clock = StartTick
  /\ NOW = 0
  /\ stateFile \in { NoFile } \cup
       { FileWith([ EmptyState EXCEPT
                      !.ep.lastSuccessfulRun = StartTick - TicksPerDay,
                      !.ep.hashes.subs = md5(1),
                      !.ep.hashes.notices = m ]) :
           m \in NoticeMaps({ md5(x) : x \in 1..MaxItems }) }
  /\ EMPTY_STATE = EmptyState
  /\ state = EmptyState
  /\ aliased = TRUE
  /\ INBOUND = << >>
  /\ pc = "start"
  /\ i = 0
  /\ errors = 0
  /\ schulmanagerException = FALSE
  /\ thrown = 0
  /\ failures = 0
  /\ pass = << >>
  /\ delivered = {}
  /\ writes = 0
  /\ probe = ProbeIdle
  /\ MailIdle

NextNotices ==
  \/ ReadState
  \/ ProcessSchulmanager
  \/ SchulmanagerThrows
  \/ PostBegin
  \/ Announcements
  \/ Inquiries
  \/ Threads
  \/ Substitutions
  \/ NoticeBoard
  \/ Events
  \/ ElternPortalThrows
  \/ BeginSend
  \/ SendStep
  \/ EndSend
  \/ Persist
  \/ Close
  \/ Wait
  \/ Retry
  \/ Tick

SpecNotices == InitNotices /\ [][NextNotices]_vars

\* The digests of the items that are on the board.
BoardHashes == { md5(portal.notices[k]) : k \in 1..Len(portal.notices) }

\* state.ep.hashes.notices
Notices(st) == st.ep.hashes.notices

\* readNoticeBoard runs.
ReadsNoticeBoard == pc = "notices" /\ pc' = "events"

\* Between readNoticeBoard and the end of sendEmails.
AfterNoticeBoard == pc \in { "events", "send", "sending" }

\* The round that sendEmails makes is the one of the task that the last
\* readNoticeBoard queued for the digest h, and the send succeeds.
DeliversNotice(h) ==
  /\ pc = "sending"
  /\ Len(pass') = Len(pass) + 1
  /\ pass'[Len(pass')].task.handler = "notice"
  /\ pass'[Len(pass')].task.live
  /\ pass'[Len(pass')].task.key = << h >>
  /\ pass'[Len(pass')].sent = "ok"

\* The same round, with the send succeeding or, with the option mute, not
\* made.
CommitsNotice(h) ==
  /\ pc = "sending"
  /\ Len(pass') = Len(pass) + 1
  /\ pass'[Len(pass')].task.handler = "notice"
  /\ pass'[Len(pass')].task.live
  /\ pass'[Len(pass')].task.key = << h >>
  /\ pass'[Len(pass')].okInvoked
  /\ ~pass'[Len(pass')].okThrew

\* C39 as stated: readNoticeBoard leaves in the notice ledger exactly the
\* digests of the items on the board, each truthy if and only if it was
\* truthy before; from then to the end of sendEmails the keys stay, and a
\* digest becomes truthy if and only if its email is delivered.
C39_NoticeLedgerTruthyIffDelivered ==
  [][ /\ ReadsNoticeBoard =>
           /\ DOMAIN Notices(state') = BoardHashes
           /\ \A h \in BoardHashes :
                Truthy(Notices(state'), h) <=> Truthy(Notices(state), h)
      /\ AfterNoticeBoard =>
           /\ DOMAIN Notices(state') = DOMAIN Notices(state)
           /\ \A h \in DOMAIN Notices(state) :
                Truthy(Notices(state'), h)
                  <=> (Truthy(Notices(state), h) \/ DeliversNotice(h))
    ]_vars

\* C39: the same, but a digest becomes truthy if and only if sendEmails
\* calls the commit handler of its task: after the delivery of its email,
\* or, with the option mute, without any delivery.
C39_NoticeLedgerTruthyIffCommitted ==
  [][ /\ ReadsNoticeBoard =>
           /\ DOMAIN Notices(state') = BoardHashes
           /\ \A h \in BoardHashes :
                Truthy(Notices(state'), h) <=> Truthy(Notices(state), h)
      /\ AfterNoticeBoard =>
           /\ DOMAIN Notices(state') = DOMAIN Notices(state)
           /\ \A h \in DOMAIN Notices(state) :
                Truthy(Notices(state'), h)
                  <=> (Truthy(Notices(state), h) \/ CommitsNotice(h))
    ]_vars

\* The state file recorded the notice 1 as sent and a notice that is no
\* longer on the board; the board shows the notices 1 and 2, the send of
\* the email for notice 2 failed, and the pass is through: the ledger to be
\* written holds the two digests of the board, the one of notice 1 truthy.
C39_Witness ==
  /\ ~cfg.mute
  /\ ~cfg.test
  /\ pc = "persist"
  /\ Len(portal.notices) = MaxItems
  /\ failures = 1
  /\ stateFile.exists
  /\ Truthy(Notices(stateFile.content), md5(1))
  /\ DOMAIN Notices(state) = BoardHashes
  /\ Truthy(Notices(state), md5(1))
  /\ ~Truthy(Notices(state), md5(2))

---------------------------------------------------------------------------
(* The main loop with incoming email, with the option test *)

\* main.js:1048 and main.js:153: main() is called with the option test;
\* incoming email is enabled, the portal shows nothing yet and the inbox
\* is empty.
InitTest ==
  /\ cfg = [ mute |-> FALSE, test |-> TRUE, once |-> FALSE ]
  /\ portal = [ announcements |-> << >>, inquiries |-> << >>,
                teachers |-> << >>, substitutions |-> 1, notices |-> << >>,
                events |-> << >>, letters |-> << >> ]
  /\ clock = StartTick
  /\ NOW = StartTick
  /\ stateFile = NoFile
  /\ EMPTY_STATE = EmptyState
  /\ state = EmptyState
  /\ aliased = TRUE
  /\ INBOUND = << >>
  /\ pc = "main"
  /\ i = 0
  /\ errors = 0
  /\ schulmanagerException = FALSE
  /\ thrown = 0
  /\ failures = 0
  /\ pass = << >>
  /\ delivered = {}
  /\ writes = 0
  /\ probe = ProbeIdle
  /\ incomingEmail = [ enabled |-> TRUE, forwardingAddress |-> TRUE,
                       allowForwardingFrom |-> { Sender("parent", FALSE) } ]
  /\ mailbox = << >>
  /\ OUTBOUND = << >>
  /\ poll = PollIdle
  /\ post = PostIdle
  /\ awake = "noop"
  /\ imap = NoImapClient
  /\ RetryIdle

\* The state is not written with the option test (main.js:1129-1132).
NextTest ==
  \/ CreateImapClient
  \/ ReadState
  \/ ProcessSchulmanager
  \/ SchulmanagerThrows
  \/ PostBegin
  \/ PostStep
  \/ PostEnd
  \/ Announcements
  \/ Inquiries
  \/ Threads
  \/ Substitutions
  \/ NoticeBoard
  \/ Events
  \/ ElternPortalThrows
  \/ BeginSend
  \/ SendStep
  \/ EndSend
  \/ Close
  \/ CheckImapConnectionThrows
  \/ Wait
  \/ Awakened
  \/ Retry
  \/ Tick
  \/ Arrive
  \/ Publish
  \/ PollBegin
  \/ PollMessage
  \/ PollEnd
  \/ PollThrows

SpecTest == InitTest /\ [][NextTest]_vars

\* The operations of sendMessagesToTeachers that submitted a form to a
\* teacher or flagged an email of the inbox.
PostedOrFlagged ==
  { n \in 1..Len(post.log) :
      post.log[n].ok /\ post.log[n].op \in { "click", "markDone" } }

\* C40: with the option test, sendMessagesToTeachers posts no message to a
\* teacher and flags no email of the inbox, and an iteration leaves the
\* forwarding tasks that are pending in OUTBOUND where they are.
C40_TestLeavesForwardingUntouched ==
  [][ cfg.test =>
        /\ PostedOrFlagged' = {}
        /\ Len(OUTBOUND') >= Len(OUTBOUND)
        /\ SubSeq(OUTBOUND', 1, Len(OUTBOUND)) = OUTBOUND
    ]_vars

=============================================================================
